---- MODULE Spec2Model ----
(***************************************************************************)
(* Model of the Twilio webhook Lambda (twiliowebhook.api).                 *)
(*                                                                         *)
(* A Python str is a sequence of tokens: single characters where the code  *)
(* looks at characters (digits, form bodies), whole literals elsewhere.    *)
(* One invocation is: an event arrives (Request or Callback), the router   *)
(* dispatches it to exactly one handler, the handler runs to completion.   *)
(* The handler's external collaborators (parameter store, template files)  *)
(* answer with a value drawn from a small set at the time of the call.     *)
(***************************************************************************)
EXTENDS Integers, Sequences, FiniteSets, TLC

\* ------------------------------------------------------------------ bounds
MaxDigitsLen == 9
MaxReprompts == 3
MaxHistory == 3
MaxRecorded == 2

\* ---------------------------------------------------------------- variables
\* the completed invocations of the process, as observed from outside
VARIABLES history

\* ------------------------------------------------------------ Python values
None == <<"<None>">>
Falsy(s) == s = None \/ s = <<>>

Range(s) == {s[i] : i \in DOMAIN s}

RECURSIVE Flatten(_)
Flatten(ss) == IF ss = <<>> THEN <<>> ELSE Head(ss) \o Flatten(Tail(ss))

\* index of the first occurrence of token t in s, 0 when there is none
IndexOf(s, t) ==
    IF \E i \in DOMAIN s : s[i] = t
    THEN CHOOSE i \in DOMAIN s : s[i] = t /\ \A j \in 1..(i - 1) : s[j] # t
    ELSE 0

\* str.split(sep): the pieces between occurrences of the token sep
RECURSIVE Split(_, _)
Split(s, sep) ==
    LET i == IndexOf(s, sep)
    IN IF i = 0 THEN <<s>>
       ELSE <<SubSeq(s, 1, i - 1)>> \o Split(SubSeq(s, i + 1, Len(s)), sep)

\* sep.join(pieces)
RECURSIVE Join(_, _)
Join(pieces, sep) ==
    IF pieces = <<>> THEN <<>>
    ELSE IF Len(pieces) = 1 THEN pieces[1]
    ELSE pieces[1] \o <<sep>> \o Join(Tail(pieces), sep)

\* ---------------------------------------------------------------- constants
SYSTEM_NAME == "twh"
ENV_TYPE == "dev"
BIRTHDATE_DIGIT_LENGTH == 8
CONTENT_TYPE_XML == "application/xml"
CONTENT_TYPE_JSON == "application/json"
SSM_TWILIO_AUTH_TOKEN == "twilio-auth-token"
SSM_MEDIA_API_URL == "media-api-url"
SSM_OPERATOR_PHONE_NUMBER == "operator-phone-number"
SSM_WEBHOOK_API_URL == "webhook-api-url"
SSM_TWILIO_ACCOUNT_SID == "twilio-account-sid"
DTMF_VOICE_ASSISTANT == <<"1">>
DTMF_OPERATOR_TRANSFER == <<"2">>
TRANSFER_CALL_ENDPOINT == <<"/", "transfer-call">>
PROCESS_BIRTHDATE_PATH == <<"/", "process-birthdate">>
HTTPS_SCHEME == "https://"
URL_QUERY_SEPARATOR == "?"
FORM_PARAM_FROM == <<"From">>
ERROR_DIGITS_NOT_FOUND == <<"Digits not found in the request body">>
ERROR_BIRTHDATE_DIGITS_NOT_FOUND == <<"Birth date digits not found in the request">>
ERROR_CALL_NUMBER_NOT_FOUND == <<"Call number not found in the request body">>
ERROR_MISSING_TWILIO_SIGNATURE == <<"Missing X-Twilio-Signature header">>
ERROR_INVALID_TWILIO_SIGNATURE == <<"Invalid Twilio request signature">>
ERROR_INVALID_PARAMETERS == <<"Invalid parameters: ">>

CONNECT_TWIML_FILE_PATH == "connect"
DIAL_TWIML_FILE_PATH == "dial"
GATHER_TWIML_FILE_PATH == "gather"
HANGUP_TWIML_FILE_PATH == "hangup"
BIRTHDATE_TWIML_FILE_PATH == "birthdate"
BIRTHDATE_CONFIRMATION_TWIML_FILE_PATH == "birthdate-confirmation"
BIRTHDATE_CONFIRMED_TWIML_FILE_PATH == "birthdate-confirmed"
BIRTHDATE_RETRY_TWIML_FILE_PATH == "birthdate-retry"
BIRTHDATE_INVALID_INPUT_TWIML_FILE_PATH == "birthdate-invalid-input"

\* f"/{SYSTEM_NAME}/{ENV_TYPE}/{k}"
ParameterName(k) == <<"/", SYSTEM_NAME, "/", ENV_TYPE, "/", k>>

\* ------------------------------------------------------- results, exceptions
\* What a call gives back: exc = "none" and a value, or an exception class
\* with its message.
Ok(v) == [exc |-> "none", msg |-> <<>>, val |-> v]
Raise(cls, m) == [exc |-> cls, msg |-> m, val |-> None]

LogEntry(level, m) == [level |-> level, msg |-> m]
Call(op, arg) == [op |-> op, arg |-> arg]

\* ------------------------------------------------------------- url encoding
\* urllib.parse.unquote on one token: the percent escapes of the alphabet
UnquoteTok(t) ==
    CASE t = "%2B" -> "+"
      [] t = "%20" -> " "
      [] t = "%46rom" -> "From"
      [] OTHER -> t
unquote(s) == [i \in DOMAIN s |-> UnquoteTok(s[i])]

\* str.replace("+", " ") as urllib.parse.parse_qsl applies it
PlusToSpace(s) == [i \in DOMAIN s |-> IF s[i] = "+" THEN " " ELSE s[i]]

\* urllib.parse.parse_qsl(qs, keep_blank_values=True): the list of (k, v)
RECURSIVE QslPairs(_)
QslPairs(pieces) ==
    IF pieces = <<>> THEN <<>>
    ELSE LET p == Head(pieces)
             i == IndexOf(p, "=")
             k == IF i = 0 THEN p ELSE SubSeq(p, 1, i - 1)
             v == IF i = 0 THEN <<>> ELSE SubSeq(p, i + 1, Len(p))
         IN (IF p = <<>> THEN <<>>
             ELSE <<<<unquote(PlusToSpace(k)), unquote(PlusToSpace(v))>>>>)
            \o QslPairs(Tail(pieces))

parse_qsl(qs) == IF Falsy(qs) THEN <<>> ELSE QslPairs(Split(qs, "&"))

\* dict(pairs): one value per key, the last one wins.  A form mapping is a
\* function from keys to the set of values the verifier sees for the key.
DictOf(pairs) ==
    [k \in {pairs[i][1] : i \in DOMAIN pairs} |->
        LET last == CHOOSE i \in DOMAIN pairs :
                        /\ pairs[i][1] = k
                        /\ \A j \in DOMAIN pairs : pairs[j][1] = k => j <= i
        IN {pairs[last][2]}]

\* urllib.parse.urlparse: netloc and path of a URL
Schemes == {"https://", "wss://", "http://"}
NetlocEnd(u) ==
    IF \E i \in 2..Len(u) : u[i] \in {"/", "?"}
    THEN (CHOOSE i \in 2..Len(u) :
              u[i] \in {"/", "?"} /\ \A j \in 2..(i - 1) : u[j] \notin {"/", "?"}) - 1
    ELSE Len(u)
HasScheme(u) == u # <<>> /\ u[1] \in Schemes
UrlNetloc(u) == IF HasScheme(u) THEN SubSeq(u, 2, NetlocEnd(u)) ELSE <<>>
UrlRest(u) == IF HasScheme(u) THEN SubSeq(u, NetlocEnd(u) + 1, Len(u)) ELSE u
UrlPath(u) ==
    LET r == UrlRest(u)
        q == IndexOf(r, "?")
    IN IF q = 0 THEN r ELSE SubSeq(r, 1, q - 1)
UrlQuery(u) ==
    LET r == UrlRest(u)
        q == IndexOf(r, "?")
    IN IF q = 0 THEN <<>> ELSE SubSeq(r, q + 1, Len(r))

\* ------------------------------------------------------------ parameter store
AllParameterKeys ==
    {SSM_TWILIO_AUTH_TOKEN, SSM_MEDIA_API_URL, SSM_OPERATOR_PHONE_NUMBER,
     SSM_WEBHOOK_API_URL, SSM_TWILIO_ACCOUNT_SID}
AllParameterNames == {ParameterName(k) : k \in AllParameterKeys}

\* awsssm.retrieve_ssm_parameters(*names) against the store's answer: all the
\* requested values, or ValueError naming the invalid ones; a failing client
\* call raises the client's own exception.
retrieve_ssm_parameters_lenient(store, names) ==
    IF ~store.up THEN Raise("ClientError", <<"Could not connect to the endpoint URL">>)
    ELSE Ok([n \in Range(names) |-> store.values[n]])

retrieve_ssm_parameters(store, names) ==
    IF ~store.up THEN Raise("ClientError", <<"Could not connect to the endpoint URL">>)
    ELSE LET invalid == SelectSeq(names, LAMBDA n : store.values[n] = None)
         IN IF invalid # <<>>
            THEN Raise("ValueError", ERROR_INVALID_PARAMETERS \o Flatten(invalid))
            ELSE Ok([n \in Range(names) |-> store.values[n]])

\* ------------------------------------------------------------------ signature
\* twilio.request_validator.RequestValidator: the signature of (uri, params)
\* under a token, as an injective symbolic MAC, and its comparison.
compute_signature(token, uri, params) == [tok |-> token, uri |-> uri, params |-> params]
RequestValidator_validate(token, uri, params, signature) ==
    signature = compute_signature(token, uri, params)

NullMac == compute_signature(None, <<>>, DictOf(<<>>))
SigAbsent == [hdr |-> "absent", mac |-> NullMac]
SigEmpty == [hdr |-> "empty", mac |-> NullMac]
SigValue(m) == [hdr |-> "value", mac |-> m]

\* event["queryStringParameters"].get(name)
QueryGet(query, name) ==
    IF \E i \in DOMAIN query : query[i][1] = name
    THEN query[CHOOSE i \in DOMAIN query : query[i][1] = name][2]
    ELSE None

\* the uri reconstructed at twilio.py:38-46
QueryString_reversed(query) ==
    IF query # <<>>
    THEN <<URL_QUERY_SEPARATOR>>
         \o Join([i \in DOMAIN query |->
                     <<query[Len(query) + 1 - i][1], "=">> \o query[Len(query) + 1 - i][2]],
                 "&")
    ELSE <<>>

QueryString(query) ==
    IF query # <<>>
    THEN <<URL_QUERY_SEPARATOR>>
         \o Join([i \in DOMAIN query |-> <<query[i][1], "=">> \o query[i][2]], "&")
    ELSE <<>>
ReconstructedUri(event) ==
    <<HTTPS_SCHEME>> \o event.domain \o event.path \o QueryString(event.query)
ReconstructedParams(event) == DictOf(parse_qsl(event.body))

\* twilio.validate_http_twilio_signature(token, event): res is what the call
\* gives back, calls the validator comparisons it made.
validate_http_twilio_signature_compare_first(token, event) ==
    LET uri == ReconstructedUri(event)
        params == ReconstructedParams(event)
        signature == event.sig
        vcall == Call("validate", [token |-> token, uri |-> uri, params |-> params,
                                   signature |-> signature])
    IN IF ~RequestValidator_validate(token, uri, params, signature.mac)
       THEN [res |-> Raise("UnauthorizedError", ERROR_INVALID_TWILIO_SIGNATURE),
             calls |-> <<vcall>>]
       ELSE IF signature.hdr # "value"
       THEN [res |-> Raise("BadRequestError", ERROR_MISSING_TWILIO_SIGNATURE),
             calls |-> <<vcall>>]
       ELSE [res |-> Ok(None), calls |-> <<vcall>>]

validate_http_twilio_signature_presence_only(token, event) ==
    IF event.sig.hdr # "value"
    THEN [res |-> Raise("BadRequestError", ERROR_MISSING_TWILIO_SIGNATURE), calls |-> <<>>]
    ELSE [res |-> Ok(None), calls |-> <<>>]

validate_http_twilio_signature(token, event) ==
    LET uri == ReconstructedUri(event)
        params == ReconstructedParams(event)
        signature == event.sig
        vcall == Call("validate", [token |-> token, uri |-> uri, params |-> params,
                                   signature |-> signature])
    IN IF signature.hdr # "value"
       THEN [res |-> Raise("BadRequestError", ERROR_MISSING_TWILIO_SIGNATURE),
             calls |-> <<>>]
       ELSE IF ~RequestValidator_validate(token, uri, params, signature.mac)
       THEN [res |-> Raise("UnauthorizedError", ERROR_INVALID_TWILIO_SIGNATURE),
             calls |-> <<vcall>>]
       ELSE [res |-> Ok(None), calls |-> <<vcall>>]

\* ---------------------------------------------------------------------- xml
\* A template file is well-formed or not; a well-formed one parses to a tree,
\* a function from element paths to elements.  An element carries the
\* attributes and the text the handlers touch.
TemplateValue == <<"<template>">>
Element == [url |-> TemplateValue, value |-> TemplateValue,
            action |-> TemplateValue, text |-> TemplateValue]
Tree(paths) == [p \in paths |-> Element]

\* the character escapes of ElementTree's serializer and parser
XmlEscapeTok(t) ==
    CASE t = "&" -> "&amp;"
      [] t = "<" -> "&lt;"
      [] t = ">" -> "&gt;"
      [] OTHER -> t
XmlEscape(s) == [i \in DOMAIN s |-> XmlEscapeTok(s[i])]
XmlUnescapeTok(t) ==
    CASE t = "&amp;" -> "&"
      [] t = "&lt;" -> "<"
      [] t = "&gt;" -> ">"
      [] OTHER -> t
XmlUnescape(s) == [i \in DOMAIN s |-> XmlUnescapeTok(s[i])]

parse_xml_and_extract_root_cached(tstore, xml_file_path) ==
    LET hits == {i \in DOMAIN history :
                    /\ "template" \in DOMAIN history[i]
                    /\ history[i].template = xml_file_path}
        last == CHOOSE i \in hits : \A j \in hits : j <= i
        body == history[last].response.body
    IN IF hits # {}
       THEN Ok([p \in DOMAIN body |->
                   [a \in DOMAIN body[p] |-> XmlUnescape(body[p][a])]])
       ELSE IF xml_file_path \notin DOMAIN tstore
       THEN Raise("FileNotFoundError", <<"No such file or directory: ", xml_file_path>>)
       ELSE IF ~tstore[xml_file_path].wellformed
       THEN Raise("ParseError", <<"syntax error: ", xml_file_path>>)
       ELSE Ok(tstore[xml_file_path].root)

parse_xml_and_extract_root(tstore, xml_file_path) ==
    IF xml_file_path \notin DOMAIN tstore
    THEN Raise("FileNotFoundError", <<"No such file or directory: ", xml_file_path>>)
    ELSE IF ~tstore[xml_file_path].wellformed
    THEN Raise("ParseError", <<"syntax error: ", xml_file_path>>)
    ELSE Ok(tstore[xml_file_path].root)

find_xml_element(root, path) ==
    IF path \in DOMAIN root THEN Ok(path)
    ELSE Raise("ValueError",
               <<"Element with tag '">> \o path \o <<"' not found in XML tree.">>)

ElementSet(root, path, attr, v) == [root EXCEPT ![path] = [@ EXCEPT ![attr] = v]]

\* ElementTree.tostring(root, encoding="unicode")
convert_xml_root_to_string(root) ==
    [p \in DOMAIN root |-> [a \in DOMAIN root[p] |-> XmlEscape(root[p][a])]]

\* ------------------------------------------------------------ phone numbers
\* phonenumbers.parse(number, region) followed by format_number(..., E164)
DigitToks == {"0", "1", "2", "3", "4", "5", "6", "7", "8", "9"}
SeparatorToks == {" ", "-", "(", ")"}
RegionCallingCode(region) == IF region = "US" THEN <<"1">> ELSE <<"81">>
FormatE164(number, region) ==
    LET stripped == SelectSeq(number, LAMBDA t : t \notin SeparatorToks)
    IN IF \/ stripped = <<>>
          \/ \E i \in DOMAIN stripped :
                stripped[i] \notin DigitToks /\ ~(i = 1 /\ stripped[i] = "+")
          \/ stripped = <<"+">>
       THEN Raise("NumberParseException",
                  <<"The string supplied did not seem to be a phone number.">>)
       ELSE IF stripped[1] = "+" THEN Ok(stripped)
       ELSE Ok(<<"+">> \o RegionCallingCode(region) \o stripped)

\* ---------------------------------------------------------------- responses
NoBody == <<>>
StatusOf(cls) ==
    CASE cls = "BadRequestError" -> 400
      [] cls = "UnauthorizedError" -> 401
      [] cls = "InternalServerError" -> 500
      [] cls = "NotFoundError" -> 404
      [] OTHER -> 0
Response(status, ctype, body) ==
    [kind |-> "Response", status |-> status, ctype |-> ctype, body |-> body,
     msg |-> <<>>]
Raised(cls, m) ==
    [kind |-> cls, status |-> StatusOf(cls), ctype |-> "", body |-> NoBody, msg |-> m]

\* what an invocation leaves behind: its response, the error/exception/warning
\* entries it logged, and the calls it made to its collaborators
Outcome(resp, lg, cs, params) ==
    [response |-> resp, log |-> lg, calls |-> cs, parameters |-> params]
NoParameters == [n \in {} |-> None]

\* main._fetch_caller_phone_number_from_request(event)
RECURSIVE FirstFrom(_)
FirstFrom(pieces) ==
    IF pieces = <<>> THEN None
    ELSE LET kv == Head(pieces)
             i == IndexOf(kv, "=")
         IN IF i # 0 /\ unquote(SubSeq(kv, 1, i - 1)) = FORM_PARAM_FROM
            THEN unquote(SubSeq(kv, i + 1, Len(kv)))
            ELSE FirstFrom(Tail(pieces))

fetch_caller_phone_number_from_request_none_only(event) ==
    LET caller_phone_number ==
            IF ~Falsy(event.body) THEN FirstFrom(Split(event.body, "&")) ELSE None
    IN IF caller_phone_number = None
       THEN Raise("BadRequestError", ERROR_CALL_NUMBER_NOT_FOUND)
       ELSE Ok(caller_phone_number)

fetch_caller_phone_number_from_request(event) ==
    LET caller_phone_number ==
            IF ~Falsy(event.body) THEN FirstFrom(Split(event.body, "&")) ELSE None
    IN IF Falsy(caller_phone_number)
       THEN Raise("BadRequestError", ERROR_CALL_NUMBER_NOT_FOUND)
       ELSE Ok(caller_phone_number)

\* ----------------------------------------------------------------- handlers
\* The body of a handler's try block gives back: res, the value or the
\* exception it ends with; log, calls, parameters as far as it got.
Step(res, lg, cs, params) ==
    [res |-> res, log |-> lg, calls |-> cs, parameters |-> params]

\* main.py:117-122: retrieve the parameters, then validate the signature with
\* the retrieved auth token
RetrieveAndValidate_validate_first(event, store, names) ==
    LET r == retrieve_ssm_parameters(store, names)
        scall == Call("get_parameters", names)
        token == store.values[ParameterName(SSM_TWILIO_AUTH_TOKEN)]
        v == validate_http_twilio_signature(token, event)
        hcall == Call("validate_http_twilio_signature", token)
    IN IF v.res.exc # "none"
       THEN Step(v.res, <<>>, <<hcall>> \o v.calls, NoParameters)
       ELSE IF r.exc # "none"
       THEN Step(r, <<>>, <<hcall>> \o v.calls \o <<scall>>, NoParameters)
       ELSE Step(Ok(r.val), <<>>, <<hcall>> \o v.calls \o <<scall>>, r.val)

RetrieveAndValidate(event, store, names) ==
    LET r == retrieve_ssm_parameters(store, names)
        scall == Call("get_parameters", names)
    IN IF r.exc # "none" THEN Step(r, <<>>, <<scall>>, NoParameters)
       ELSE LET token == r.val[ParameterName(SSM_TWILIO_AUTH_TOKEN)]
                v == validate_http_twilio_signature(token, event)
                hcall == Call("validate_http_twilio_signature", token)
            IN Step(IF v.res.exc # "none" THEN v.res ELSE Ok(r.val),
                    <<>>, <<scall, hcall>> \o v.calls, r.val)

\* main.py:148-160: the except clauses and the else clause of a
\* signature-checked handler
HandleExceptions_wrap_all(s) ==
    IF s.res.exc = "none"
    THEN Outcome(Response(200, CONTENT_TYPE_XML, s.res.val), s.log, s.calls,
                 s.parameters)
    ELSE Outcome(Raised("InternalServerError", s.res.msg),
                 s.log \o <<LogEntry("exception", s.res.msg)>>, s.calls,
                 s.parameters)

HandleExceptions(s) ==
    IF s.res.exc = "none"
    THEN Outcome(Response(200, CONTENT_TYPE_XML, s.res.val), s.log, s.calls,
                 s.parameters)
    ELSE IF s.res.exc \in {"BadRequestError", "UnauthorizedError"}
    THEN Outcome(Raised(s.res.exc, s.res.msg),
                 s.log \o <<LogEntry("exception", s.res.msg)>>, s.calls,
                 s.parameters)
    ELSE Outcome(Raised("InternalServerError", s.res.msg),
                 s.log \o <<LogEntry("exception", s.res.msg)>>, s.calls,
                 s.parameters)

\* a raise outside any try block: the exception leaves the handler as it is
Propagate(res, lg, cs, params) == Outcome(Raised(res.exc, res.msg), lg, cs, params)

\* the step that loads a template, with the load recorded
LoadCall(file) == Call("parse_xml_and_extract_root", file)

\* ---- check_health, main.py:71-84
HEALTH_BODY == <<"{\"message\": \"The function is running!\"}">>
check_health_markup ==
    Outcome(Response(200, CONTENT_TYPE_XML, HEALTH_BODY), <<>>, <<>>, NoParameters)

check_health ==
    Outcome(Response(200, CONTENT_TYPE_JSON, HEALTH_BODY), <<>>, <<>>, NoParameters)

\* ---- transfer_call, main.py:87-160
StreamPath == <<"Connect", "Stream">>
ParameterFromPath == <<"Parameter[@name='From']">>

\* digits == "1": the connect template with the stream url and the caller
TransferConnect(event, parameters, tstore) ==
    LET p == parse_xml_and_extract_root(tstore, CONNECT_TWIML_FILE_PATH)
    IN IF p.exc # "none" THEN p
       ELSE LET c == fetch_caller_phone_number_from_request(event)
       IN IF c.exc # "none" THEN c
       ELSE LET stream == find_xml_element(p.val, StreamPath)
       IN IF stream.exc # "none" THEN stream
       ELSE LET root1 == ElementSet(p.val, stream.val, "url",
                                    parameters[ParameterName(SSM_MEDIA_API_URL)])
                pf == find_xml_element(root1, stream.val \o ParameterFromPath)
       IN IF pf.exc # "none" THEN pf
       ELSE Ok(ElementSet(root1, pf.val, "value", c.val))

\* digits == "2": the dial template with the operator number in E.164
TransferDial(parameters, tstore, country_code) ==
    LET p == parse_xml_and_extract_root(tstore, DIAL_TWIML_FILE_PATH)
    IN IF p.exc # "none" THEN p
       ELSE LET dial == find_xml_element(p.val, <<"Dial">>)
       IN IF dial.exc # "none" THEN dial
       ELSE LET n == FormatE164(parameters[ParameterName(SSM_OPERATOR_PHONE_NUMBER)],
                                country_code)
       IN IF n.exc # "none" THEN n
       ELSE Ok(ElementSet(p.val, dial.val, "text", n.val))

TransferTemplate_swapped(digits) ==
    IF digits = DTMF_VOICE_ASSISTANT THEN CONNECT_TWIML_FILE_PATH
    ELSE IF digits = DTMF_OPERATOR_TRANSFER THEN HANGUP_TWIML_FILE_PATH
    ELSE DIAL_TWIML_FILE_PATH

\* the template each branch of main.py:124-146 loads
TransferTemplate(digits) ==
    IF digits = DTMF_VOICE_ASSISTANT THEN CONNECT_TWIML_FILE_PATH
    ELSE IF digits = DTMF_OPERATOR_TRANSFER THEN DIAL_TWIML_FILE_PATH
    ELSE HANGUP_TWIML_FILE_PATH

transfer_call_retrieval_propagates(event, store, tstore, country_code) ==
    LET digits == QueryGet(event.query, "digits")
        names == <<ParameterName(SSM_TWILIO_AUTH_TOKEN),
                   ParameterName(SSM_MEDIA_API_URL),
                   ParameterName(SSM_OPERATOR_PHONE_NUMBER)>>
    IN IF Falsy(digits)
       THEN Outcome(Raised("BadRequestError", ERROR_DIGITS_NOT_FOUND),
                    <<LogEntry("error", ERROR_DIGITS_NOT_FOUND)>>, <<>>, NoParameters)
       ELSE LET rv == RetrieveAndValidate(event, store, names)
            IN IF rv.res.exc \in {"ValueError", "ClientError"}
               THEN Propagate(rv.res, <<>>, rv.calls, rv.parameters)
               ELSE IF rv.res.exc # "none" THEN HandleExceptions(rv)
               ELSE LET file == TransferTemplate(digits)
                        root ==
                            IF file = CONNECT_TWIML_FILE_PATH
                            THEN TransferConnect(event, rv.parameters, tstore)
                            ELSE IF file = DIAL_TWIML_FILE_PATH
                            THEN TransferDial(rv.parameters, tstore, country_code)
                            ELSE parse_xml_and_extract_root(tstore, file)
                        twiml == IF root.exc # "none" THEN root
                                 ELSE Ok(convert_xml_root_to_string(root.val))
                    IN HandleExceptions(Step(twiml, <<>>,
                                             rv.calls \o <<LoadCall(file)>>,
                                             rv.parameters))

transfer_call(event, store, tstore, country_code) ==
    LET digits == QueryGet(event.query, "digits")
        names == <<ParameterName(SSM_TWILIO_AUTH_TOKEN),
                   ParameterName(SSM_MEDIA_API_URL),
                   ParameterName(SSM_OPERATOR_PHONE_NUMBER)>>
    IN IF Falsy(digits)
       THEN Outcome(Raised("BadRequestError", ERROR_DIGITS_NOT_FOUND),
                    <<LogEntry("error", ERROR_DIGITS_NOT_FOUND)>>, <<>>, NoParameters)
       ELSE LET rv == RetrieveAndValidate(event, store, names)
            IN IF rv.res.exc # "none" THEN HandleExceptions(rv)
               ELSE LET file == TransferTemplate(digits)
                        root ==
                            IF file = CONNECT_TWIML_FILE_PATH
                            THEN TransferConnect(event, rv.parameters, tstore)
                            ELSE IF file = DIAL_TWIML_FILE_PATH
                            THEN TransferDial(rv.parameters, tstore, country_code)
                            ELSE parse_xml_and_extract_root(tstore, file)
                        twiml == IF root.exc # "none" THEN root
                                 ELSE Ok(convert_xml_root_to_string(root.val))
                    IN HandleExceptions(Step(twiml, <<>>,
                                             rv.calls \o <<LoadCall(file)>>,
                                             rv.parameters))

\* ---- monitor_call, main.py:163-211
\* what client.calls(call_sid).fetch() can give back; the exception that
\* ends the try block is recorded after the call that raised it
ProviderOutcomes ==
    {Ok(<<"{\"sid\": ...}">>),
     [exc |-> "TwilioRestException", msg |-> <<"Not found">>, val |-> <<"20404">>],
     [exc |-> "TwilioRestException", msg |-> <<"Authenticate">>, val |-> <<"20003">>],
     Raise("ConnectionError", <<"Read timed out.">>)}

monitor_call_code_ignored(call_sid, store, fetched) ==
    LET names == <<ParameterName(SSM_TWILIO_ACCOUNT_SID),
                   ParameterName(SSM_TWILIO_AUTH_TOKEN)>>
        r == retrieve_ssm_parameters(store, names)
        scall == Call("get_parameters", names)
        fcall == Call("calls.fetch", call_sid)
        Fail(cls, m, cs, params) ==
            Outcome(Raised(cls, m), <<LogEntry("exception", m)>>, cs, params)
    IN IF r.exc = "ValueError"
       THEN Fail("InternalServerError",
                 <<"Invalid parameter configuration: ">> \o r.msg, <<scall, Call("raised", r)>>,
                 NoParameters)
       ELSE IF r.exc # "none"
       THEN Fail("InternalServerError",
                 <<"Failed to fetch call details: ">> \o r.msg, <<scall, Call("raised", r)>>,
                 NoParameters)
       ELSE IF fetched.exc = "none"
       THEN Outcome(Response(200, CONTENT_TYPE_JSON, fetched.val), <<>>,
                    <<scall, fcall>>, r.val)
       ELSE IF fetched.exc = "TwilioRestException"
       THEN Fail("InternalServerError", <<"Twilio API error: ">> \o fetched.msg,
                 <<scall, fcall, Call("raised", fetched)>>, r.val)
       ELSE Fail("InternalServerError",
                 <<"Failed to fetch call details: ">> \o fetched.msg,
                 <<scall, fcall, Call("raised", fetched)>>, r.val)

monitor_call(call_sid, store, fetched) ==
    LET names == <<ParameterName(SSM_TWILIO_ACCOUNT_SID),
                   ParameterName(SSM_TWILIO_AUTH_TOKEN)>>
        r == retrieve_ssm_parameters(store, names)
        scall == Call("get_parameters", names)
        fcall == Call("calls.fetch", call_sid)
        Fail(cls, m, cs, params) ==
            Outcome(Raised(cls, m), <<LogEntry("exception", m)>>, cs, params)
    IN IF r.exc = "ValueError"
       THEN Fail("InternalServerError",
                 <<"Invalid parameter configuration: ">> \o r.msg, <<scall, Call("raised", r)>>,
                 NoParameters)
       ELSE IF r.exc # "none"
       THEN Fail("InternalServerError",
                 <<"Failed to fetch call details: ">> \o r.msg, <<scall, Call("raised", r)>>,
                 NoParameters)
       ELSE IF fetched.exc = "none"
       THEN Outcome(Response(200, CONTENT_TYPE_JSON, fetched.val), <<>>,
                    <<scall, fcall>>, r.val)
       ELSE IF fetched.exc = "TwilioRestException" /\ fetched.val = <<"20404">>
       THEN Fail("BadRequestError", <<"Call not found: ", call_sid>>,
                 <<scall, fcall, Call("raised", fetched)>>, r.val)
       ELSE IF fetched.exc = "TwilioRestException"
       THEN Fail("InternalServerError", <<"Twilio API error: ">> \o fetched.msg,
                 <<scall, fcall, Call("raised", fetched)>>, r.val)
       ELSE Fail("InternalServerError",
                 <<"Failed to fetch call details: ">> \o fetched.msg,
                 <<scall, fcall, Call("raised", fetched)>>, r.val)

\* ---- _respond_to_call, main.py:269-320
RespondConnect(root, caller_phone_number, media_api_url) ==
    LET stream == find_xml_element(root, StreamPath)
    IN IF stream.exc # "none" THEN stream
       ELSE LET root1 == ElementSet(root, stream.val, "url", media_api_url)
                pf == find_xml_element(root1, StreamPath \o ParameterFromPath)
       IN IF pf.exc # "none" THEN pf
       ELSE Ok(ElementSet(root1, pf.val, "value", caller_phone_number))

RespondGather(root, webhook_api_url) ==
    LET gather == find_xml_element(root, <<"Gather">>)
    IN IF gather.exc # "none" THEN gather
       ELSE LET webhook_api_fqdn == UrlNetloc(webhook_api_url)
                transfer_api_url ==
                    <<HTTPS_SCHEME>> \o webhook_api_fqdn \o TRANSFER_CALL_ENDPOINT
       IN Ok(ElementSet(root, gather.val, "action", transfer_api_url))

RespondBirthdate_always_redirect(root, webhook_api_url) ==
    LET gather == find_xml_element(root, <<"Gather">>)
    IN IF gather.exc # "none" THEN gather
       ELSE LET webhook_api_fqdn == UrlNetloc(webhook_api_url)
                process_birthdate_url ==
                    <<HTTPS_SCHEME>> \o webhook_api_fqdn \o PROCESS_BIRTHDATE_PATH
                root1 == ElementSet(root, gather.val, "action", process_birthdate_url)
                redirect == find_xml_element(root1, <<"Redirect">>)
       IN IF redirect.exc # "none" THEN redirect
       ELSE Ok(ElementSet(root1, redirect.val, "text",
                          <<HTTPS_SCHEME>> \o webhook_api_fqdn \o UrlPath(webhook_api_url)))

RespondBirthdate(root, webhook_api_url) ==
    LET gather == find_xml_element(root, <<"Gather">>)
    IN IF gather.exc # "none" THEN gather
       ELSE LET webhook_api_fqdn == UrlNetloc(webhook_api_url)
                process_birthdate_url ==
                    <<HTTPS_SCHEME>> \o webhook_api_fqdn \o PROCESS_BIRTHDATE_PATH
                root1 == ElementSet(root, gather.val, "action", process_birthdate_url)
                redirect == find_xml_element(root1, <<"Redirect">>)
       IN IF redirect.exc # "none" THEN redirect
       ELSE LET current_url == UrlPath(webhook_api_url)
       IN IF current_url # <<>>
          THEN Ok(ElementSet(root1, redirect.val, "text",
                             <<HTTPS_SCHEME>> \o webhook_api_fqdn \o current_url))
          ELSE Ok(root1)

respond_to_call_dial_caller(twiml_file_path, caller_phone_number, media_api_url, webhook_api_url, tstore) ==
    LET p == parse_xml_and_extract_root(tstore, twiml_file_path)
    IN IF p.exc # "none" THEN p
       ELSE LET root ==
                  IF twiml_file_path = CONNECT_TWIML_FILE_PATH
                  THEN RespondConnect(p.val, caller_phone_number, media_api_url)
                  ELSE IF twiml_file_path = GATHER_TWIML_FILE_PATH
                  THEN RespondGather(p.val, webhook_api_url)
                  ELSE IF twiml_file_path = BIRTHDATE_TWIML_FILE_PATH
                  THEN RespondBirthdate(p.val, webhook_api_url)
                  ELSE IF twiml_file_path = DIAL_TWIML_FILE_PATH
                  THEN LET dial == find_xml_element(p.val, <<"Dial">>)
                       IN IF dial.exc # "none" THEN dial
                          ELSE Ok(ElementSet(p.val, dial.val, "text", caller_phone_number))
                  ELSE p
       IN IF root.exc # "none" THEN root
          ELSE Ok(convert_xml_root_to_string(root.val))

respond_to_call(twiml_file_path, caller_phone_number, media_api_url, webhook_api_url, tstore) ==
    LET p == parse_xml_and_extract_root(tstore, twiml_file_path)
    IN IF p.exc # "none" THEN p
       ELSE LET root ==
                  IF twiml_file_path = CONNECT_TWIML_FILE_PATH
                  THEN RespondConnect(p.val, caller_phone_number, media_api_url)
                  ELSE IF twiml_file_path = GATHER_TWIML_FILE_PATH
                  THEN RespondGather(p.val, webhook_api_url)
                  ELSE IF twiml_file_path = BIRTHDATE_TWIML_FILE_PATH
                  THEN RespondBirthdate(p.val, webhook_api_url)
                  ELSE p
       IN IF root.exc # "none" THEN root
          ELSE Ok(convert_xml_root_to_string(root.val))

\* ---- handle_incoming_call, main.py:214-266
handle_incoming_call_caller_first(event, twiml_file_stem, store, tstore) ==
    LET names == <<ParameterName(SSM_TWILIO_AUTH_TOKEN),
                   ParameterName(SSM_MEDIA_API_URL),
                   ParameterName(SSM_WEBHOOK_API_URL)>>
        badfile == <<"Invalid TwiML file: ", twiml_file_stem, ".twiml.xml">>
        c == fetch_caller_phone_number_from_request(event)
    IN IF c.exc # "none" THEN Propagate(c, <<>>, <<>>, NoParameters)
       ELSE IF twiml_file_stem \notin DOMAIN tstore
       THEN Outcome(Raised("BadRequestError", badfile),
                    <<LogEntry("error", badfile)>>, <<>>, NoParameters)
       ELSE LET rv == RetrieveAndValidate(event, store, names)
       IN IF rv.res.exc # "none" THEN HandleExceptions(rv)
       ELSE LET r == respond_to_call(twiml_file_stem, c.val,
                         rv.parameters[ParameterName(SSM_MEDIA_API_URL)],
                         rv.parameters[ParameterName(SSM_WEBHOOK_API_URL)], tstore)
                cs == rv.calls \o <<LoadCall(twiml_file_stem)>>
       IN IF r.exc # "none" THEN Propagate(r, <<>>, cs, rv.parameters)
          ELSE Outcome(Response(200, CONTENT_TYPE_XML, r.val), <<>>, cs,
                       rv.parameters)

handle_incoming_call(event, twiml_file_stem, store, tstore) ==
    LET names == <<ParameterName(SSM_TWILIO_AUTH_TOKEN),
                   ParameterName(SSM_MEDIA_API_URL),
                   ParameterName(SSM_WEBHOOK_API_URL)>>
        badfile == <<"Invalid TwiML file: ", twiml_file_stem, ".twiml.xml">>
    IN IF twiml_file_stem \notin DOMAIN tstore
       THEN Outcome(Raised("BadRequestError", badfile),
                    <<LogEntry("error", badfile)>>, <<>>, NoParameters)
       ELSE LET c == fetch_caller_phone_number_from_request(event)
       IN IF c.exc # "none" THEN Propagate(c, <<>>, <<>>, NoParameters)
       ELSE LET rv == RetrieveAndValidate(event, store, names)
       IN IF rv.res.exc # "none" THEN HandleExceptions(rv)
       ELSE LET r == respond_to_call(twiml_file_stem, c.val,
                         rv.parameters[ParameterName(SSM_MEDIA_API_URL)],
                         rv.parameters[ParameterName(SSM_WEBHOOK_API_URL)], tstore)
                cs == rv.calls \o <<LoadCall(twiml_file_stem)>>
       IN IF r.exc # "none" THEN Propagate(r, <<>>, cs, rv.parameters)
          ELSE Outcome(Response(200, CONTENT_TYPE_XML, r.val), <<>>, cs,
                       rv.parameters)

\* ---- _build_webhook_urls, main.py:323-340
build_webhook_urls(webhook_api_url) ==
    LET webhook_fqdn == UrlNetloc(webhook_api_url)
    IN [fqdn |-> webhook_fqdn,
        confirm |-> <<HTTPS_SCHEME>> \o webhook_fqdn
                    \o <<"/", "confirm-digits", "/", "birthdate">>,
        birthdate_entry |-> <<HTTPS_SCHEME>> \o webhook_fqdn
                            \o <<"/", "handle-incoming-call", "/", "birthdate">>]

\* Python s[a:b] for 0 <= a <= b
Slice(s, a, b) ==
    LET hi == IF b < Len(s) THEN b ELSE Len(s)
    IN IF a < hi THEN SubSeq(s, a + 1, hi) ELSE <<>>

\* ---- _parse_birthdate_digits, main.py:343-357
parse_birthdate_digits(digits) ==
    [year |-> Slice(digits, 0, 4), month |-> Slice(digits, 4, 6),
     day |-> Slice(digits, 6, 8)]

\* str.isdigit(): non-empty and every character in a Unicode digit class,
\* which holds the ASCII digits and others such as ARABIC-INDIC DIGIT THREE
\* (U+0663) and SUPERSCRIPT TWO (U+00B2)
NonAsciiDigitToks == {"U+0663", "U+00B2"}
isdigit(s) == s # <<>> /\ \A i \in DOMAIN s : s[i] \in DigitToks \cup NonAsciiDigitToks

ConfirmationPrompt(date_parts) ==
    <<"You entered ">> \o date_parts.month \o <<" ">> \o date_parts.day \o <<", ">>
    \o date_parts.year
    \o <<" as your birth date. Press 1 to confirm, or press 2 to re-enter your birth date.">>

ConfirmedText(date_parts) ==
    <<"Thank you. We have recorded your birth date as ">> \o date_parts.month
    \o <<" ">> \o date_parts.day \o <<", ">> \o date_parts.year \o <<". Goodbye!">>

\* birth date validation of process_digits, main.py:435
BirthdateFormatOk_no_length(digits) == isdigit(digits)
BirthdateFormatOk(digits) == ~(Len(digits) # BIRTHDATE_DIGIT_LENGTH \/ ~isdigit(digits))

InvalidTarget(target) == <<"Invalid target: ", target, ". Expected 'birthdate'.">>
InvalidBirthdateFormat(digits) ==
    <<"Invalid birth date format: ">> \o digits
    \o <<". Expected YYYYMMDD (", "8", " digits).">>

\* the confirm url with the birthdate embedded, main.py:481 and 584
ConfirmAction_no_query(urls, birthdate) == urls.confirm
ConfirmAction(urls, birthdate) == urls.confirm \o <<"?", "birthdate", "=">> \o birthdate

\* the try block of process_digits after the signature check, main.py:455-487
ProcessDigitsBody(digits, parameters, tstore) ==
    LET date_parts == parse_birthdate_digits(digits)
        urls == build_webhook_urls(parameters[ParameterName(SSM_WEBHOOK_API_URL)])
        p == parse_xml_and_extract_root(tstore, BIRTHDATE_CONFIRMATION_TWIML_FILE_PATH)
    IN IF p.exc # "none" THEN p
       ELSE LET say == find_xml_element(p.val, <<"Say">>)
       IN IF say.exc # "none" THEN say
       ELSE LET root1 == ElementSet(p.val, say.val, "text", ConfirmationPrompt(date_parts))
                gather == find_xml_element(root1, <<"Gather">>)
       IN IF gather.exc # "none" THEN gather
       ELSE LET root2 == ElementSet(root1, gather.val, "action",
                                    ConfirmAction(urls, digits))
                redirect == find_xml_element(root2, <<"Redirect">>)
       IN IF redirect.exc # "none" THEN redirect
       ELSE Ok(convert_xml_root_to_string(
                   ElementSet(root2, redirect.val, "text", urls.birthdate_entry)))

\* ---- process_digits, main.py:411-500
process_digits_digits_first(event, target, store, tstore) ==
    LET digits == QueryGet(event.query, "digits")
        names == <<ParameterName(SSM_TWILIO_AUTH_TOKEN),
                   ParameterName(SSM_WEBHOOK_API_URL)>>
        Reject(m) == Outcome(Raised("BadRequestError", m), <<LogEntry("error", m)>>,
                             <<>>, NoParameters)
    IN IF Falsy(digits) THEN Reject(ERROR_BIRTHDATE_DIGITS_NOT_FOUND)
       ELSE IF ~BirthdateFormatOk(digits) THEN Reject(InvalidBirthdateFormat(digits))
       ELSE IF target # "birthdate" THEN Reject(InvalidTarget(target))
       ELSE LET rv == RetrieveAndValidate(event, store, names)
       IN IF rv.res.exc # "none" THEN HandleExceptions(rv)
          ELSE HandleExceptions(
                   Step(ProcessDigitsBody(digits, rv.parameters, tstore), <<>>,
                        rv.calls \o <<LoadCall(BIRTHDATE_CONFIRMATION_TWIML_FILE_PATH)>>,
                        rv.parameters))

process_digits(event, target, store, tstore) ==
    LET digits == QueryGet(event.query, "digits")
        names == <<ParameterName(SSM_TWILIO_AUTH_TOKEN),
                   ParameterName(SSM_WEBHOOK_API_URL)>>
        Reject(m) == Outcome(Raised("BadRequestError", m), <<LogEntry("error", m)>>,
                             <<>>, NoParameters)
    IN IF target # "birthdate" THEN Reject(InvalidTarget(target))
       ELSE IF Falsy(digits) THEN Reject(ERROR_BIRTHDATE_DIGITS_NOT_FOUND)
       ELSE IF ~BirthdateFormatOk(digits) THEN Reject(InvalidBirthdateFormat(digits))
       ELSE LET rv == RetrieveAndValidate(event, store, names)
       IN IF rv.res.exc # "none" THEN HandleExceptions(rv)
          ELSE HandleExceptions(
                   Step(ProcessDigitsBody(digits, rv.parameters, tstore), <<>>,
                        rv.calls \o <<LoadCall(BIRTHDATE_CONFIRMATION_TWIML_FILE_PATH)>>,
                        rv.parameters))

ConfirmTemplate_swapped(digits) ==
    IF digits = <<"1">> THEN BIRTHDATE_RETRY_TWIML_FILE_PATH
    ELSE IF digits = <<"2">> THEN BIRTHDATE_CONFIRMED_TWIML_FILE_PATH
    ELSE BIRTHDATE_INVALID_INPUT_TWIML_FILE_PATH

\* the template each branch of main.py:551-586 loads
ConfirmTemplate(digits) ==
    IF digits = <<"1">> THEN BIRTHDATE_CONFIRMED_TWIML_FILE_PATH
    ELSE IF digits = <<"2">> THEN BIRTHDATE_RETRY_TWIML_FILE_PATH
    ELSE BIRTHDATE_INVALID_INPUT_TWIML_FILE_PATH

\* the try block of confirm_digits after the signature check, main.py:548-588
ConfirmDigitsBody(digits, birthdate, parameters, tstore) ==
    LET urls == build_webhook_urls(parameters[ParameterName(SSM_WEBHOOK_API_URL)])
        p == parse_xml_and_extract_root(tstore, ConfirmTemplate(digits))
    IN IF p.exc # "none" THEN p
       ELSE IF digits = <<"1">>
       THEN LET say == find_xml_element(p.val, <<"Say">>)
            IN IF say.exc # "none" THEN say
               ELSE Ok(convert_xml_root_to_string(
                           ElementSet(p.val, say.val, "text",
                                      ConfirmedText(parse_birthdate_digits(birthdate)))))
       ELSE IF digits = <<"2">>
       THEN LET redirect == find_xml_element(p.val, <<"Redirect">>)
            IN IF redirect.exc # "none" THEN redirect
               ELSE Ok(convert_xml_root_to_string(
                           ElementSet(p.val, redirect.val, "text", urls.birthdate_entry)))
       ELSE LET gather == find_xml_element(p.val, <<"Gather">>)
            IN IF gather.exc # "none" THEN gather
               ELSE LET root1 == ElementSet(p.val, gather.val, "action",
                                            ConfirmAction(urls, birthdate))
                        redirect == find_xml_element(root1, <<"Redirect">>)
               IN IF redirect.exc # "none" THEN redirect
                  ELSE Ok(convert_xml_root_to_string(
                              ElementSet(root1, redirect.val, "text",
                                         urls.birthdate_entry)))

\* ---- confirm_digits, main.py:503-601
confirm_digits_unchecked(event, target, store, tstore) ==
    LET digits == QueryGet(event.query, "digits")
        birthdate == QueryGet(event.query, "birthdate")
        names == <<ParameterName(SSM_TWILIO_AUTH_TOKEN),
                   ParameterName(SSM_WEBHOOK_API_URL)>>
        rv == RetrieveAndValidate(event, store, names)
    IN IF target # "birthdate"
       THEN Outcome(Raised("BadRequestError", InvalidTarget(target)),
                    <<LogEntry("error", InvalidTarget(target))>>, <<>>, NoParameters)
       ELSE IF rv.res.exc # "none" THEN HandleExceptions(rv)
       ELSE IF Falsy(digits) \/ Falsy(birthdate)
       THEN HandleExceptions(Step(Raise("BadRequestError",
                                        <<"Confirmation digits not found in the request">>),
                                  <<>>, rv.calls, rv.parameters))
       ELSE HandleExceptions(
                Step(ConfirmDigitsBody(digits, birthdate, rv.parameters, tstore), <<>>,
                     rv.calls \o <<LoadCall(ConfirmTemplate(digits))>>, rv.parameters))

confirm_digits(event, target, store, tstore) ==
    LET digits == QueryGet(event.query, "digits")
        birthdate == QueryGet(event.query, "birthdate")
        names == <<ParameterName(SSM_TWILIO_AUTH_TOKEN),
                   ParameterName(SSM_WEBHOOK_API_URL)>>
        Reject(m) == Outcome(Raised("BadRequestError", m), <<LogEntry("error", m)>>,
                             <<>>, NoParameters)
    IN IF target # "birthdate" THEN Reject(InvalidTarget(target))
       ELSE IF Falsy(digits)
       THEN Reject(<<"Confirmation digits not found in the request">>)
       ELSE IF Falsy(birthdate)
       THEN Reject(<<"Birthdate parameter not found in the request">>)
       ELSE LET rv == RetrieveAndValidate(event, store, names)
       IN IF rv.res.exc # "none" THEN HandleExceptions(rv)
          ELSE HandleExceptions(
                   Step(ConfirmDigitsBody(digits, birthdate, rv.parameters, tstore),
                        IF digits \notin {<<"1">>, <<"2">>}
                        THEN <<LogEntry("warning",
                                        <<"Invalid confirmation input: ">> \o digits)>>
                        ELSE <<>>,
                        rv.calls \o <<LoadCall(ConfirmTemplate(digits))>>,
                        rv.parameters))

\* ---- _validate_batch_monitor_params, _extract_next_page_token and
\* ---- batch_monitor_calls (spec 4.3 table, 4.4, 7)
BATCH_LIMIT_DEFAULT == 100
BATCH_LIMIT_MIN == 1
BATCH_LIMIT_MAX == 1000
ERROR_BATCH_DATES_REQUIRED == <<"Both start_date and end_date are required parameters">>
ERROR_BATCH_DATE_RANGE == <<"start_date must be before or equal to end_date">>
ERROR_BATCH_LIMIT == <<"Limit must be between 1 and 1000">>
ERROR_BATCH_FORMAT == <<"Invalid date format or parameter configuration: ">>

\* int(s): an optional sign and decimal digits, ValueError for anything else
DigitValue(t) == CHOOSE n \in 0..9 : <<"0", "1", "2", "3", "4", "5", "6", "7", "8", "9">>[n + 1] = t
RECURSIVE DecimalValue(_)
DecimalValue(s) ==
    IF s = <<>> THEN 0
    ELSE 10 * DecimalValue(SubSeq(s, 1, Len(s) - 1)) + DigitValue(s[Len(s)])
ParseInt(s) ==
    LET neg == s # <<>> /\ s[1] = "-"
        ds == IF neg THEN Tail(s) ELSE s
    IN IF ds = <<>> \/ \E i \in DOMAIN ds : ds[i] \notin DigitToks
       THEN Raise("ValueError", <<"invalid literal for int() with base 10: ">> \o s)
       ELSE Ok(IF neg THEN 0 - DecimalValue(ds) ELSE DecimalValue(ds))

\* an ISO-8601 timestamp with a time component, <date> T <time> [Z], as the
\* number of seconds since the start of the month of the calendar below
DayNumber(t) ==
    CASE t = "2024-01-01" -> 1
      [] t = "2024-01-15" -> 15
      [] t = "2024-01-31" -> 31
      [] OTHER -> 0
SecondOfDay(t) ==
    CASE t = "00:00:00" -> 0
      [] t = "10:30:00" -> 37800
      [] t = "23:59:59" -> 86399
      [] OTHER -> 0 - 1
ParseIsoDatetime(s) ==
    IF /\ Len(s) \in {3, 4}
       /\ DayNumber(s[1]) # 0
       /\ s[2] = "T"
       /\ SecondOfDay(s[3]) >= 0
       /\ Len(s) = 4 => s[4] = "Z"
    THEN Ok(DayNumber(s[1]) * 86400 + SecondOfDay(s[3]))
    ELSE Raise("ValueError", <<"Invalid isoformat string: ">> \o s)

\* _validate_batch_monitor_params(query_params): res is the validated
\* parameters or the error, log what was logged on the way
validate_batch_monitor_params_zero_limit(query_params) ==
    LET start_date == QueryGet(query_params, "start_date")
        end_date == QueryGet(query_params, "end_date")
        limit_str == QueryGet(query_params, "limit")
        Reject(m) == [res |-> Raise("BadRequestError", m), log |-> <<LogEntry("error", m)>>]
        RejectFormat(e) ==
            [res |-> Raise("BadRequestError", ERROR_BATCH_FORMAT \o e.msg),
             log |-> <<LogEntry("exception", ERROR_BATCH_FORMAT \o e.msg)>>]
    IN IF Falsy(start_date) \/ Falsy(end_date) THEN Reject(ERROR_BATCH_DATES_REQUIRED)
       ELSE LET start_dt == ParseIsoDatetime(start_date)
                end_dt == ParseIsoDatetime(end_date)
       IN IF start_dt.exc # "none" THEN RejectFormat(start_dt)
          ELSE IF end_dt.exc # "none" THEN RejectFormat(end_dt)
          ELSE IF start_dt.val > end_dt.val THEN Reject(ERROR_BATCH_DATE_RANGE)
          ELSE LET limit == IF limit_str = None THEN Ok(BATCH_LIMIT_DEFAULT)
                            ELSE ParseInt(limit_str)
          IN IF limit.exc # "none" THEN RejectFormat(limit)
             ELSE IF limit.val < 0 \/ limit.val > BATCH_LIMIT_MAX
             THEN Reject(ERROR_BATCH_LIMIT)
             ELSE [res |-> Ok([start_date |-> start_date, end_date |-> end_date,
                               start_dt |-> start_dt.val, end_dt |-> end_dt.val,
                               status |-> QueryGet(query_params, "status"),
                               direction |-> QueryGet(query_params, "direction"),
                               limit |-> limit.val,
                               page_token |-> QueryGet(query_params, "page_token")]),
                   log |-> <<>>]

validate_batch_monitor_params(query_params) ==
    LET start_date == QueryGet(query_params, "start_date")
        end_date == QueryGet(query_params, "end_date")
        limit_str == QueryGet(query_params, "limit")
        Reject(m) == [res |-> Raise("BadRequestError", m), log |-> <<LogEntry("error", m)>>]
        RejectFormat(e) ==
            [res |-> Raise("BadRequestError", ERROR_BATCH_FORMAT \o e.msg),
             log |-> <<LogEntry("exception", ERROR_BATCH_FORMAT \o e.msg)>>]
    IN IF Falsy(start_date) \/ Falsy(end_date) THEN Reject(ERROR_BATCH_DATES_REQUIRED)
       ELSE LET start_dt == ParseIsoDatetime(start_date)
                end_dt == ParseIsoDatetime(end_date)
       IN IF start_dt.exc # "none" THEN RejectFormat(start_dt)
          ELSE IF end_dt.exc # "none" THEN RejectFormat(end_dt)
          ELSE IF start_dt.val > end_dt.val THEN Reject(ERROR_BATCH_DATE_RANGE)
          ELSE LET limit == IF limit_str = None THEN Ok(BATCH_LIMIT_DEFAULT)
                            ELSE ParseInt(limit_str)
          IN IF limit.exc # "none" THEN RejectFormat(limit)
             ELSE IF limit.val < BATCH_LIMIT_MIN \/ limit.val > BATCH_LIMIT_MAX
             THEN Reject(ERROR_BATCH_LIMIT)
             ELSE [res |-> Ok([start_date |-> start_date, end_date |-> end_date,
                               start_dt |-> start_dt.val, end_dt |-> end_dt.val,
                               status |-> QueryGet(query_params, "status"),
                               direction |-> QueryGet(query_params, "direction"),
                               limit |-> limit.val,
                               page_token |-> QueryGet(query_params, "page_token")]),
                   log |-> <<>>]

\* _extract_next_page_token(next_page_url): the value of the PageToken
\* parameter of the provider's next-page url, None without a url
extract_next_page_token(next_page_url) ==
    IF next_page_url = None THEN Ok(None)
    ELSE LET pieces == Split(next_page_url, "PageToken=")
         IN IF Len(pieces) < 2 THEN Raise("IndexError", <<"list index out of range">>)
            ELSE Ok(Split(pieces[2], "&")[1])

\* what client.calls.page(...) can give back
ProviderPages ==
    {Ok([calls |-> <<"{\"sid\": \"CA1\"}", "{\"sid\": \"CA2\"}">>, next_page_url |-> None]),
     Ok([calls |-> <<"{\"sid\": \"CA1\"}">>,
         next_page_url |-> <<"https://", "api.twilio.com", "/", "Calls.json", "?",
                             "PageToken=", "PAXXXXXXX", "&", "Page=", "1">>]),
     Ok([calls |-> <<>>,
         next_page_url |-> <<"https://", "api.twilio.com", "/", "Calls.json", "?",
                             "Page=", "1">>]),
     [exc |-> "TwilioRestException", msg |-> <<"Unauthorized">>, val |-> <<"20003">>],
     Raise("ConnectionError", <<"Read timed out.">>)}

CountText(n) == <<"0", "1", "2">>[n + 1]
BatchBody(calls_page, token) ==
    <<"calls">> \o calls_page \o <<"count", CountText(Len(calls_page)), "next_page_token">>
    \o token

batch_monitor_calls(event, store, page) ==
    LET v == validate_batch_monitor_params(event.query)
        names == <<ParameterName(SSM_TWILIO_ACCOUNT_SID),
                   ParameterName(SSM_TWILIO_AUTH_TOKEN)>>
        Fail(m, cs, params) ==
            Outcome(Raised("InternalServerError", m), <<LogEntry("exception", m)>>, cs,
                    params)
    IN IF v.res.exc # "none"
       THEN Outcome(Raised(v.res.exc, v.res.msg), v.log, <<>>, NoParameters)
       ELSE LET r == retrieve_ssm_parameters(store, names)
                scall == Call("get_parameters", names)
                pcall == Call("calls.page", v.res.val)
       IN IF r.exc = "ValueError"
          THEN Fail(<<"Invalid parameter configuration: ">> \o r.msg, <<scall>>,
                    NoParameters)
          ELSE IF r.exc # "none"
          THEN Fail(<<"Failed to fetch calls: ">> \o r.msg, <<scall>>, NoParameters)
          ELSE IF page.exc = "TwilioRestException"
          THEN Fail(<<"Twilio API error: ">> \o page.msg, <<scall, pcall>>, r.val)
          ELSE IF page.exc # "none"
          THEN Fail(<<"Failed to fetch calls: ">> \o page.msg, <<scall, pcall>>, r.val)
          ELSE LET token == extract_next_page_token(page.val.next_page_url)
          IN IF token.exc # "none"
             THEN Fail(<<"Failed to fetch calls: ">> \o token.msg, <<scall, pcall>>, r.val)
             ELSE Outcome(Response(200, CONTENT_TYPE_JSON,
                                   BatchBody(page.val.calls, token.val)),
                          <<>>, <<scall, pcall>>, r.val)

\* -------------------------------------------------------------- environment
GenuineToken == <<"auth-token-A">>
ForgedToken == <<"auth-token-X">>
MediaApiUrl == <<"wss://", "media.example.com">>
AccountSid == <<"AC123">>
WebhookUrls ==
    {<<"https://", "api.example.com">>,
     <<"https://", "api.example.com", "/", "handle-incoming-call", "/", "birthdate">>}
OperatorNumbers ==
    {<<"+", "1", "5", "5", "5">>, <<"(", "5", "5", "5", ")", " ", "0", "1">>,
     <<"n", "/", "a">>}

StoreValues(webhook, operator) ==
    [n \in AllParameterNames |->
        CASE n = ParameterName(SSM_TWILIO_AUTH_TOKEN) -> GenuineToken
          [] n = ParameterName(SSM_MEDIA_API_URL) -> MediaApiUrl
          [] n = ParameterName(SSM_OPERATOR_PHONE_NUMBER) -> operator
          [] n = ParameterName(SSM_WEBHOOK_API_URL) -> webhook
          [] OTHER -> AccountSid]
DefaultValues ==
    StoreValues(<<"https://", "api.example.com">>, <<"+", "1", "5", "5", "5">>)

\* the answers the parameter store can give: every value present, one or two
\* names invalid, or the client call failing
SsmStores ==
    {[up |-> TRUE, values |-> StoreValues(w, o)] : w \in WebhookUrls, o \in OperatorNumbers}
    \cup {[up |-> TRUE, values |-> [DefaultValues EXCEPT ![n] = None]] :
             n \in AllParameterNames}
    \cup {[up |-> TRUE,
           values |-> [DefaultValues EXCEPT ![ParameterName(SSM_TWILIO_AUTH_TOKEN)] = None,
                                            ![ParameterName(SSM_WEBHOOK_API_URL)] = None]]}
    \cup {[up |-> FALSE, values |-> DefaultValues]}

\* the template files: the deployed ones, the same files with their elements
\* missing, the same files not well-formed
TemplateElements ==
    [f \in {CONNECT_TWIML_FILE_PATH, DIAL_TWIML_FILE_PATH, GATHER_TWIML_FILE_PATH,
            HANGUP_TWIML_FILE_PATH, BIRTHDATE_TWIML_FILE_PATH,
            BIRTHDATE_CONFIRMATION_TWIML_FILE_PATH,
            BIRTHDATE_CONFIRMED_TWIML_FILE_PATH, BIRTHDATE_RETRY_TWIML_FILE_PATH,
            BIRTHDATE_INVALID_INPUT_TWIML_FILE_PATH} |->
        CASE f = CONNECT_TWIML_FILE_PATH -> {StreamPath, StreamPath \o ParameterFromPath}
          [] f = DIAL_TWIML_FILE_PATH -> {<<"Dial">>}
          [] f = GATHER_TWIML_FILE_PATH -> {<<"Gather">>, <<"Gather", "Say">>}
          [] f = HANGUP_TWIML_FILE_PATH -> {<<"Hangup">>}
          [] f = BIRTHDATE_TWIML_FILE_PATH -> {<<"Gather">>, <<"Redirect">>}
          [] f = BIRTHDATE_CONFIRMATION_TWIML_FILE_PATH ->
                {<<"Say">>, <<"Gather">>, <<"Redirect">>}
          [] f = BIRTHDATE_CONFIRMED_TWIML_FILE_PATH -> {<<"Say">>, <<"Hangup">>}
          [] f = BIRTHDATE_RETRY_TWIML_FILE_PATH -> {<<"Say">>, <<"Redirect">>}
          [] OTHER -> {<<"Say">>, <<"Gather">>, <<"Redirect">>}]
DeployedTemplates ==
    [f \in DOMAIN TemplateElements |->
        [wellformed |-> TRUE, root |-> Tree(TemplateElements[f])]]
TemplateStores ==
    {DeployedTemplates,
     [f \in DOMAIN TemplateElements |-> [wellformed |-> TRUE, root |-> Tree({})]],
     [f \in DOMAIN TemplateElements |-> [wellformed |-> FALSE, root |-> Tree({})]]}

\* ------------------------------------------------------------------- events
DomainName == <<"fn.example.com">>
BaseDigits == <<"1", "9", "9", "0", "0", "1", "1", "5", "7", "3", "2", "6">>
Prefix(n) == SubSeq(BaseDigits, 1, n)
SubstituteToks == {"4", "a", "/", "U+0663"}
\* digit strings of every length up to MaxDigitsLen, with at most one
\* character replaced by another digit, a letter, a separator or a
\* non-ASCII digit
DigitStrings ==
    {Prefix(n) : n \in 0..MaxDigitsLen}
    \cup UNION {{[Prefix(n) EXCEPT ![i] = c] : i \in 1..n, c \in SubstituteToks} :
                   n \in 1..MaxDigitsLen}

Bodies ==
    {<<>>,
     <<"From", "=", "+", "1", "5">>,
     <<"To", "=", "+", "9">>,
     <<"From", "=">>,
     <<"%46rom", "=", "%2B", "1", "5">>,
     <<"From", "=", "+", "1", "5", "&", "From", "=", "+", "2", "7">>,
     <<"Malformed", "&", "From", "=", "+", "1", "5", "&", "To", "=">>}

\* the query mapping delivered for the given digits and birthdate (None: the
\* parameter is not in the query)
QueryOf(digits, birthdate) ==
    (IF digits = None THEN <<>> ELSE <<<<"digits", digits>>>>)
    \o (IF birthdate = None THEN <<>> ELSE <<<<"birthdate", birthdate>>>>)

TransferQueries ==
    {QueryOf(d, None) : d \in {None, <<>>, <<"1">>, <<"2">>, <<"9">>, <<"1", "2">>}}
ProcessQueries == {QueryOf(d, None) : d \in DigitStrings \cup {None}}
ConfirmQueries ==
    {QueryOf(d, b) : d \in {None, <<>>, <<"1">>, <<"2">>, <<"9">>},
                     b \in {None, <<>>, Prefix(8), Prefix(4), <<"a", "b">>}}
Stems == {"connect", "gather", "hangup", "dial", "birthdate", "nope"}

\* targets other than the literal, and the queries sent with them
OtherTargets == {"other", "Birthdate", "birthdates"}
OtherTargetQueries ==
    {QueryOf(None, None), QueryOf(<<>>, <<>>), QueryOf(<<"a">>, None),
     QueryOf(<<"9">>, Prefix(8)), QueryOf(Prefix(8), <<"a", "b">>)}

\* request lines and the queries sent with them
RequestLines ==
    {<<"GET", <<"/", "health">>, <<>>>>, <<"POST", <<"/", "health">>, <<>>>>,
     <<"GET", <<"/", "monitor-call", "/", "CA1">>, <<>>>>,
     <<"POST", PROCESS_BIRTHDATE_PATH, QueryOf(Prefix(8), None)>>,
     <<"POST", <<"/", "process-digits", "/", "other">>, QueryOf(Prefix(8), None)>>,
     <<"POST", <<"/", "confirm-digits", "/", "other">>, QueryOf(<<"1">>, Prefix(8))>>}
    \cup {<<"POST", <<"/", seg, "/", t>>, q>> :
             seg \in {"process-digits", "confirm-digits"}, t \in OtherTargets,
             q \in OtherTargetQueries}
    \cup {<<"POST", TRANSFER_CALL_ENDPOINT, q>> : q \in TransferQueries}
    \cup {<<"POST", <<"/", "handle-incoming-call", "/", st>>, <<>>>> : st \in Stems}
    \cup {<<"POST", <<"/", "process-digits", "/", "birthdate">>, q>> : q \in ProcessQueries}
    \cup {<<"POST", <<"/", "confirm-digits", "/", "birthdate">>, q>> : q \in ConfirmQueries}

\* what the sender signs: the url it requests and every form pair it posts
MultiDictOf(pairs) ==
    [k \in {pairs[i][1] : i \in DOMAIN pairs} |->
        {pairs[i][2] : i \in {j \in DOMAIN pairs : pairs[j][1] = k}}]
SenderUri(domain, path, query) == <<HTTPS_SCHEME>> \o domain \o path \o QueryString(query)
SenderMac(token, domain, path, query, body) ==
    compute_signature(token, SenderUri(domain, path, query), MultiDictOf(parse_qsl(body)))

Signatures(domain, path, query, body) ==
    {SigAbsent, SigEmpty,
     SigValue(SenderMac(GenuineToken, domain, path, query, body)),
     SigValue(SenderMac(ForgedToken, domain, path, query, body)),
     SigValue(SenderMac(GenuineToken, domain, path, query, <<"To", "=", "+", "9">>))}

Event(method, domain, path, query, body, sig) ==
    [method |-> method, domain |-> domain, path |-> path, query |-> query,
     body |-> body, sig |-> sig]
NoEvent == Event("", <<>>, <<>>, <<>>, <<>>, SigAbsent)
NoResponse == [kind |-> "none", status |-> 0, ctype |-> "", body |-> NoBody, msg |-> <<>>]

\* the queries sent to batch-monitor-calls: every combination of start and
\* end values without a limit, and every limit with a well-ordered range
Timestamp(day, time) == <<day, "T", time, "Z">>
BatchDates ==
    {None, <<>>, <<"2024-01-01">>, <<"invalid-date">>,
     Timestamp("2024-01-01", "00:00:00"), Timestamp("2024-01-15", "10:30:00"),
     <<"2024-01-15", "T", "10:30:00">>, Timestamp("2024-01-31", "23:59:59")}
BatchLimits ==
    {None, <<>>, <<"5", "0">>, <<"1">>, <<"1", "0", "0", "0">>, <<"0">>,
     <<"1", "0", "0", "1">>, <<"1", "5", "0", "0">>, <<"-", "1">>, <<"not-a-number">>}
BatchQuery(start, end, limit, status, direction, page_token) ==
    LET Pair(k, v) == IF v = None THEN <<>> ELSE <<<<k, v>>>>
    IN Pair("start_date", start) \o Pair("end_date", end) \o Pair("limit", limit)
       \o Pair("status", status) \o Pair("direction", direction)
       \o Pair("page_token", page_token)
BatchQueries ==
    {BatchQuery(s, e, None, None, None, None) : s \in BatchDates, e \in BatchDates}
    \cup {BatchQuery(Timestamp("2024-01-01", "00:00:00"), e, l, f[1], f[2], f[3]) :
             e \in {Timestamp("2024-01-01", "00:00:00"),
                    Timestamp("2024-01-31", "23:59:59")},
             l \in BatchLimits,
             f \in {<<None, None, None>>,
                    <<<<"completed">>, <<"inbound">>, <<"PA1234567890">>>>}}
    \cup {BatchQuery(Timestamp("2024-01-31", "23:59:59"),
                     Timestamp("2024-01-01", "00:00:00"), l, None, None, None) :
             l \in {<<"1", "5", "0", "0">>, <<"not-a-number">>}}
    \cup {BatchQuery(None, None, <<"1", "5", "0", "0">>, None, None, None)}
BatchRequests ==
    {Event("GET", DomainName, <<"/", "batch-monitor-calls">>, q, <<>>, SigAbsent) :
        q \in BatchQueries}

Requests ==
    UNION {{Event(rl[1], DomainName, rl[2], rl[3], b, sg) :
                sg \in Signatures(DomainName, rl[2], rl[3], b)} :
              rl \in RequestLines, b \in Bodies}
    \cup BatchRequests

\* ------------------------------------------------------------------- router
\* the routes registered on app, main.py:71, 87, 163, 214, 411, 503, and the
\* batch listing of spec 6
Route(ev) ==
    LET p == ev.path
        One(seg) == p = <<"/", seg>>
        Two(seg) == Len(p) = 4 /\ SubSeq(p, 1, 3) = <<"/", seg, "/">> /\ p[4] # "/"
    IN CASE ev.method = "GET" /\ One("health") -> "check_health"
         [] ev.method = "POST" /\ One("transfer-call") -> "transfer_call"
         [] ev.method = "GET" /\ Two("monitor-call") -> "monitor_call"
         [] ev.method = "GET" /\ One("batch-monitor-calls") -> "batch_monitor_calls"
         [] ev.method = "POST" /\ Two("handle-incoming-call") -> "handle_incoming_call"
         [] ev.method = "POST" /\ Two("process-digits") -> "process_digits"
         [] ev.method = "POST" /\ Two("confirm-digits") -> "confirm_digits"
         [] OTHER -> "not_found"
PathArg(ev) == ev.path[4]

\* -------------------------------------------------------------------- state
VARIABLES pc, event, handler, response, log, calls, parameters, flow, reprompts, original
vars == <<pc, event, handler, response, log, calls, parameters, flow, reprompts,
          original, history>>

Init ==
    /\ pc = "idle"
    /\ event = NoEvent
    /\ handler = "none"
    /\ response = NoResponse
    /\ log = <<>>
    /\ calls = <<>>
    /\ parameters = NoParameters
    /\ flow = None
    /\ reprompts = 0
    /\ original = None
    /\ history = <<>>

Receive(ev, fl, n, orig) ==
    /\ pc' = "pending"
    /\ event' = ev
    /\ handler' = "none"
    /\ response' = NoResponse
    /\ log' = <<>>
    /\ calls' = <<>>
    /\ parameters' = NoParameters
    /\ flow' = fl
    /\ reprompts' = n
    /\ original' = orig
    /\ UNCHANGED history

\* a request from outside
Request ==
    /\ pc = "idle"
    /\ \E ev \in Requests : Receive(ev, None, 0, None)

\* the response has been handed back and nothing of the invocation is kept
Discard ==
    /\ pc' = "idle"
    /\ event' = NoEvent
    /\ handler' = "none"
    /\ response' = NoResponse
    /\ log' = <<>>
    /\ calls' = <<>>
    /\ parameters' = NoParameters
    /\ flow' = None
    /\ reprompts' = 0
    /\ original' = None

Return ==
    /\ pc = "done"
    /\ Discard
    /\ UNCHANGED history

\* the same steps with the completed invocations observed from outside:
\* history holds, for each health invocation, its event and its response,
\* and for each other invocation that it took place
Observed(h, ev, resp) ==
    IF h = "check_health" THEN [handler |-> h, event |-> ev, response |-> resp]
    ELSE [handler |-> "other", event |-> NoEvent, response |-> NoResponse]

ObservedRequests ==
    {Event("GET", DomainName, <<"/", "health">>, <<>>, <<>>, SigAbsent),
     Event("GET", DomainName, <<"/", "health">>, QueryOf(<<"1">>, None),
           <<"From", "=", "+", "1", "5">>,
           SigValue(SenderMac(ForgedToken, DomainName, <<"/", "health">>,
                              QueryOf(<<"1">>, None), <<"From", "=", "+", "1", "5">>))),
     Event("GET", DomainName, <<"/", "health">>, QueryOf(None, Prefix(8)),
           <<"To", "=", "+", "9">>, SigEmpty),
     Event("POST", DomainName, <<"/", "health">>, <<>>, <<>>, SigAbsent),
     Event("GET", DomainName, <<"/", "monitor-call", "/", "CA1">>, <<>>, <<>>, SigAbsent),
     Event("GET", DomainName, <<"/", "batch-monitor-calls">>,
           <<<<"start_date", <<"2024-01-01", "T", "00:00:00", "Z">>>>,
             <<"end_date", <<"2024-01-31", "T", "23:59:59", "Z">>>>>>, <<>>, SigAbsent)}
    \cup {Event("POST", DomainName, rl[1], rl[2], <<"From", "=", "+", "1", "5">>,
                SigValue(SenderMac(GenuineToken, DomainName, rl[1], rl[2],
                                   <<"From", "=", "+", "1", "5">>))) :
             rl \in {<<TRANSFER_CALL_ENDPOINT, QueryOf(<<"1">>, None)>>,
                     <<<<"/", "handle-incoming-call", "/", "gather">>, <<>>>>,
                     <<<<"/", "process-digits", "/", "birthdate">>,
                       QueryOf(Prefix(8), None)>>}}

RequestObserved ==
    /\ pc = "idle"
    /\ \E ev \in ObservedRequests : Receive(ev, None, 0, None)

ReturnObserved ==
    /\ pc = "done"
    /\ Len(history) < MaxHistory
    /\ Discard
    /\ history' = Append(history, Observed(handler, event, response))

\* the query mapping the transport delivers for a url's query string
TransportQuery(q) ==
    LET pieces == IF q = <<>> THEN <<>> ELSE Split(q, "&")
        good == SelectSeq(pieces, LAMBDA kv : Len(kv) >= 2 /\ kv[2] = "=")
    IN [i \in DOMAIN good |-> <<good[i][1], unquote(SubSeq(good[i], 3, Len(good[i])))>>]

CallbackKeys == {<<"1">>, <<"2">>, <<"9">>, Prefix(8)}
CallbackBody == <<"From", "=", "%2B", "1", "5">>

\* the urls the provider calls next for a markup response: the action of a
\* Gather (with the keys pressed) and the text of a Redirect
FollowUps(body) ==
    {[url |-> XmlUnescape(body[p].action), keys |-> k] :
        p \in {x \in DOMAIN body : x = <<"Gather">> /\ body[x].action # TemplateValue},
        k \in CallbackKeys}
    \cup {[url |-> XmlUnescape(body[p].text), keys |-> None] :
        p \in {x \in DOMAIN body : x = <<"Redirect">> /\ body[x].text # TemplateValue}}

\* the provider follows the markup of the last response; reprompts is the
\* number of consecutive invalid confirmation inputs answered so far and
\* original the birthdate parameter of the first of them
Callback ==
    /\ pc = "done"
    /\ response.kind = "Response"
    /\ response.ctype = CONTENT_TYPE_XML
    /\ \E f \in FollowUps(response.body) :
          /\ f.keys # None => reprompts < MaxReprompts
          /\ LET domain == UrlNetloc(f.url)
                 path == UrlPath(f.url)
                 query == QueryOf(f.keys, None) \o TransportQuery(UrlQuery(f.url))
                 sig == SigValue(SenderMac(GenuineToken, domain, path, query, CallbackBody))
             IN Receive(Event("POST", domain, path, query, CallbackBody, sig),
                        IF f.keys = None THEN None ELSE flow,
                        IF f.keys = None THEN 0 ELSE reprompts,
                        IF f.keys = None THEN None ELSE original)

\* the invocation answered an invalid confirmation input with the re-prompt
Reprompted(h, o) ==
    /\ h = "confirm_digits"
    /\ o.response.kind = "Response"
    /\ QueryGet(event.query, "digits") \notin {<<"1">>, <<"2">>}

Finish(h, o) ==
    /\ pc' = "done"
    /\ handler' = h
    /\ response' = o.response
    /\ log' = o.log
    /\ calls' = o.calls
    /\ parameters' = o.parameters
    /\ flow' = IF h # "process_digits" THEN flow
               ELSE IF o.response.kind = "Response"
               THEN QueryGet(event.query, "digits") ELSE None
    /\ reprompts' = IF Reprompted(h, o) THEN reprompts + 1 ELSE 0
    /\ original' = IF ~Reprompted(h, o) THEN None
                   ELSE IF reprompts = 0 THEN QueryGet(event.query, "birthdate")
                   ELSE original
    /\ UNCHANGED <<event, history>>

Dispatched(h) == pc = "pending" /\ Route(event) = h

CheckHealth == Dispatched("check_health") /\ Finish("check_health", check_health)

TransferCall ==
    /\ Dispatched("transfer_call")
    /\ \E store \in SsmStores, tstore \in TemplateStores :
          Finish("transfer_call", transfer_call(event, store, tstore, "US"))

MonitorCall ==
    /\ Dispatched("monitor_call")
    /\ \E store \in SsmStores, fetched \in ProviderOutcomes :
          Finish("monitor_call", monitor_call(PathArg(event), store, fetched))

BatchMonitorCalls ==
    /\ Dispatched("batch_monitor_calls")
    /\ \E store \in SsmStores, page \in ProviderPages :
          Finish("batch_monitor_calls", batch_monitor_calls(event, store, page))

HandleIncomingCall ==
    /\ Dispatched("handle_incoming_call")
    /\ \E store \in SsmStores, tstore \in TemplateStores :
          Finish("handle_incoming_call",
                 handle_incoming_call(event, PathArg(event), store, tstore))

ProcessDigits ==
    /\ Dispatched("process_digits")
    /\ \E store \in SsmStores, tstore \in TemplateStores :
          Finish("process_digits", process_digits(event, PathArg(event), store, tstore))

ConfirmDigits ==
    /\ Dispatched("confirm_digits")
    /\ \E store \in SsmStores, tstore \in TemplateStores :
          Finish("confirm_digits", confirm_digits(event, PathArg(event), store, tstore))

\* no route matches: the resolver answers not found
NotFound ==
    /\ Dispatched("not_found")
    /\ Finish("not_found",
              Outcome(Raised("NotFoundError", <<"Not found">>), <<>>, <<>>, NoParameters))

Next ==
    \/ Request
    \/ Return
    \/ Callback
    \/ CheckHealth
    \/ TransferCall
    \/ MonitorCall
    \/ BatchMonitorCalls
    \/ HandleIncomingCall
    \/ ProcessDigits
    \/ ConfirmDigits
    \/ NotFound

Spec == Init /\ [][Next]_vars

\* the invocations as an observer of the function sees them, one after
\* another
NextObserved ==
    \/ RequestObserved
    \/ ReturnObserved
    \/ Callback
    \/ CheckHealth
    \/ TransferCall
    \/ MonitorCall
    \/ BatchMonitorCalls
    \/ HandleIncomingCall
    \/ ProcessDigits
    \/ ConfirmDigits
    \/ NotFound

SpecObserved == Init /\ [][NextObserved]_vars

\* the invocations of one warm process, one request after another, with
\* every invocation that returned markup recorded as it left the process:
\* its event, the parameters it retrieved, the template file it loaded and
\* its response
LoadedTemplate(cs) ==
    cs[CHOOSE i \in DOMAIN cs : cs[i].op = "parse_xml_and_extract_root"].arg
Recorded(h, ev, params, cs, resp) ==
    IF resp.kind = "Response" /\ resp.ctype = CONTENT_TYPE_XML
    THEN [handler |-> h, event |-> ev, parameters |-> params,
          template |-> LoadedTemplate(cs), response |-> resp]
    ELSE [handler |-> "other", event |-> NoEvent, parameters |-> NoParameters,
          template |-> "", response |-> NoResponse]

LifecycleRequests ==
    {Event("GET", DomainName, <<"/", "health">>, <<>>, <<>>, SigAbsent),
     Event("GET", DomainName, <<"/", "monitor-call", "/", "CA1">>, <<>>, <<>>, SigAbsent),
     Event("GET", DomainName, <<"/", "batch-monitor-calls">>,
           <<<<"start_date", <<"2024-01-01", "T", "00:00:00", "Z">>>>,
             <<"end_date", <<"2024-01-31", "T", "23:59:59", "Z">>>>>>, <<>>, SigAbsent)}
    \cup {Event("POST", DomainName, rl[1], rl[2], rl[3],
                SigValue(SenderMac(GenuineToken, DomainName, rl[1], rl[2], rl[3]))) :
             rl \in {<<TRANSFER_CALL_ENDPOINT, QueryOf(<<"1">>, None),
                       <<"From", "=", "%2B", "2", "7">>>>,
                     <<<<"/", "handle-incoming-call", "/", "birthdate">>, <<>>,
                       <<"From", "=", "%2B", "1", "5">>>>,
                     <<<<"/", "process-digits", "/", "birthdate">>,
                       QueryOf(Prefix(8), None), <<"From", "=", "%2B", "1", "5">>>>,
                     <<<<"/", "confirm-digits", "/", "birthdate">>,
                       QueryOf(<<"1">>, Prefix(8)), <<"From", "=", "%2B", "1", "5">>>>,
                     <<PROCESS_BIRTHDATE_PATH, QueryOf(Prefix(8), None),
                       <<"From", "=", "%2B", "1", "5">>>>}}

RequestLifecycle ==
    /\ pc = "idle"
    /\ \E ev \in LifecycleRequests : Receive(ev, None, 0, None)

ReturnLifecycle ==
    /\ pc = "done"
    /\ Len(history) < MaxRecorded
    /\ Discard
    /\ history' = Append(history, Recorded(handler, event, parameters, calls, response))

NextLifecycle ==
    \/ RequestLifecycle
    \/ ReturnLifecycle
    \/ CheckHealth
    \/ TransferCall
    \/ MonitorCall
    \/ BatchMonitorCalls
    \/ HandleIncomingCall
    \/ ProcessDigits
    \/ ConfirmDigits
    \/ NotFound

SpecLifecycle == Init /\ [][NextLifecycle]_vars

\* ------------------------------------------------------------ vocabulary
Done == pc = "done"
SignatureChecked ==
    {"transfer_call", "handle_incoming_call", "process_digits", "confirm_digits"}
HasCall(op) == \E i \in DOMAIN calls : calls[i].op = op
CallCount(op) == Cardinality({i \in DOMAIN calls : calls[i].op = op})
Retrieved == DOMAIN parameters # {}
\* the validator compared the signature and found it valid
Verified ==
    \E i \in DOMAIN calls :
        /\ calls[i].op = "validate"
        /\ RequestValidator_validate(calls[i].arg.token, calls[i].arg.uri,
                                     calls[i].arg.params, calls[i].arg.signature.mac)
Digits == QueryGet(event.query, "digits")
Birthdate == QueryGet(event.query, "birthdate")
AuthTokenName == ParameterName(SSM_TWILIO_AUTH_TOKEN)
IsMarkup == response.kind = "Response" /\ response.ctype = CONTENT_TYPE_XML
SignatureErrors ==
    {Raised("BadRequestError", ERROR_MISSING_TWILIO_SIGNATURE),
     Raised("UnauthorizedError", ERROR_INVALID_TWILIO_SIGNATURE)}

\* ------------------------------------------------------------------ claims
\* C1 (as stated): a request whose signature has not been verified observes
\* no response that depends on its query, path or body: it ends with a
\* signature error or with the retrieval failure that precedes the check.
C1_NoInputDependentResponseUnverified ==
    (Done /\ handler \in SignatureChecked /\ ~Verified)
        => \/ response \in SignatureErrors
           \/ response.kind = "InternalServerError"

\* C1 (amended): in every signature-checked handler no markup is produced and
\* no template is loaded unless the signature has been verified, and once the
\* handler has made its first external call an unverified request ends with a
\* signature error or a 500-class error only; the client-input checks that
\* come before any external call do answer unverified requests with 400.
C1_SignatureBeforeMarkup ==
    (Done /\ handler \in SignatureChecked /\ ~Verified)
        => /\ response.kind # "Response"
           /\ ~HasCall("parse_xml_and_extract_root")
           /\ calls # <<>> =>
                \/ response \in SignatureErrors
                \/ response.kind = "InternalServerError"
           /\ calls = <<>> => response.kind = "BadRequestError"

C1_Witness ==
    /\ Done /\ handler \in SignatureChecked /\ ~Verified
    /\ HasCall("validate")
    /\ response.kind = "UnauthorizedError"

\* C2: when the signature header is absent, validate_http_twilio_signature
\* ends with the missing-signature error whatever the body and the query
\* are, and the validator's comparison is not invoked.
C2_MissingSignatureKind ==
    (Done /\ HasCall("validate_http_twilio_signature") /\ event.sig.hdr = "absent")
        => /\ response = Raised("BadRequestError", ERROR_MISSING_TWILIO_SIGNATURE)
           /\ ~HasCall("validate")

C2_Witness ==
    /\ Done /\ HasCall("validate_http_twilio_signature") /\ event.sig.hdr = "absent"
    /\ event.body # <<>> /\ event.query # <<>>
    /\ response.msg = ERROR_MISSING_TWILIO_SIGNATURE

\* C3: when signature verification fails in a signature-checked handler, the
\* handler ends with that error under its own kind (400 missing, 401
\* invalid), its message logged once at exception level and nothing else
\* logged; it is not wrapped as a 500 and no markup is returned.
SignatureFailed ==
    /\ HasCall("validate_http_twilio_signature")
    /\ validate_http_twilio_signature(parameters[AuthTokenName], event).res.exc # "none"
C3_SignatureFailurePropagates ==
    (Done /\ handler \in SignatureChecked /\ SignatureFailed)
        => /\ response \in SignatureErrors
           /\ response.status = (IF event.sig.hdr = "value" THEN 401 ELSE 400)
           /\ log = <<LogEntry("exception", response.msg)>>
           /\ response.body = NoBody

C3_Witness ==
    /\ Done /\ handler = "confirm_digits" /\ SignatureFailed
    /\ response.status = 401

\* C4: in every signature-checked handler the parameters are retrieved
\* before the signature validation starts, the token handed to the verifier
\* is the retrieved auth token, a retrieval failure ends with a 500-class
\* error without the verifier being called, and a signature failure ends
\* with a 400/401-class error.
C4_RetrievalBeforeValidation ==
    (Done /\ handler \in SignatureChecked)
        => /\ \A i \in DOMAIN calls :
                calls[i].op = "validate_http_twilio_signature"
                    => /\ \E j \in 1..(i - 1) : calls[j].op = "get_parameters"
                       /\ Retrieved
                       /\ calls[i].arg = parameters[AuthTokenName]
           /\ \A i \in DOMAIN calls :
                calls[i].op = "validate"
                    => Retrieved /\ calls[i].arg.token = parameters[AuthTokenName]
           /\ (HasCall("get_parameters") /\ ~Retrieved)
                => /\ ~HasCall("validate_http_twilio_signature")
                   /\ ~HasCall("validate")
                   /\ response.kind = "InternalServerError"
                   /\ response.status = 500
           /\ (Retrieved /\ ~Verified) => response.status \in {400, 401}

C4_Witness ==
    /\ Done /\ handler \in SignatureChecked
    /\ Retrieved /\ Verified
    /\ calls[1].op = "get_parameters"
    /\ calls[2] = Call("validate_http_twilio_signature", GenuineToken)

\* C5: a client-input validation failure (digits, target, template stem,
\* caller number, birthdate) is raised before any call to the parameter
\* store or to the call-record provider is made in the invocation.
ClientInputFailure ==
    /\ handler \in SignatureChecked
    /\ response.kind = "BadRequestError"
    /\ response.msg # ERROR_MISSING_TWILIO_SIGNATURE
C5_ValidationBeforeExternalCalls ==
    (Done /\ ClientInputFailure)
        => \A i \in DOMAIN calls : calls[i].op \notin {"get_parameters", "calls.fetch"}

\* C6: every invocation of a handler ends with a success response or with
\* one error of a classified kind (400, 401, 500).
C6_ClassifiedOutcome ==
    (Done /\ handler # "not_found")
        => response.kind \in {"Response", "BadRequestError", "UnauthorizedError",
                              "InternalServerError"}

\* C7: the result of transfer-call follows the digits parameter: absent or
\* empty is the 400 digits error; of the successful results, "1" is the
\* connect markup with the media url and the caller number of the body, "2"
\* the dial markup with the operator number in E.164, anything else the
\* hangup template as deployed; one template is loaded per success.
ExpectedTransferMarkup ==
    IF Digits = <<"1">>
    THEN [Tree({StreamPath, StreamPath \o ParameterFromPath}) EXCEPT
             ![StreamPath].url = parameters[ParameterName(SSM_MEDIA_API_URL)],
             ![StreamPath \o ParameterFromPath].value =
                 fetch_caller_phone_number_from_request(event).val]
    ELSE IF Digits = <<"2">>
    THEN [Tree({<<"Dial">>}) EXCEPT
             ![<<"Dial">>].text =
                 FormatE164(parameters[ParameterName(SSM_OPERATOR_PHONE_NUMBER)],
                            "US").val]
    ELSE response.body
\* the hangup template as one of the stores holds it, serialized as loaded
HangupAsLoaded ==
    {convert_xml_root_to_string(ts[HANGUP_TWIML_FILE_PATH].root) :
        ts \in {t \in TemplateStores : t[HANGUP_TWIML_FILE_PATH].wellformed}}
ExpectedTransferTemplate ==
    IF Digits = <<"1">> THEN "connect" ELSE IF Digits = <<"2">> THEN "dial" ELSE "hangup"
C7_TransferByDigits ==
    (Done /\ handler = "transfer_call")
        => /\ Falsy(Digits) <=>
                response = Raised("BadRequestError", ERROR_DIGITS_NOT_FOUND)
           /\ response.kind = "Response" =>
                /\ response.status = 200
                /\ response.ctype = CONTENT_TYPE_XML
                /\ response.body = ExpectedTransferMarkup
                /\ Digits \notin {<<"1">>, <<"2">>} => response.body \in HangupAsLoaded
                /\ CallCount("parse_xml_and_extract_root") = 1
                /\ HasCall("parse_xml_and_extract_root")
                /\ \A i \in DOMAIN calls :
                      calls[i].op = "parse_xml_and_extract_root"
                          => calls[i].arg = ExpectedTransferTemplate
                /\ (Digits = <<"1">> /\ event.body = <<"From", "=", "+", "1", "5">>)
                      => response.body[StreamPath \o ParameterFromPath].value
                             = <<"+", "1", "5">>
                /\ (Digits = <<"2">>
                    /\ parameters[ParameterName(SSM_OPERATOR_PHONE_NUMBER)]
                           = <<"(", "5", "5", "5", ")", " ", "0", "1">>)
                      => response.body[<<"Dial">>].text
                             = <<"+", "1", "5", "5", "5", "0", "1">>

C7_Witness ==
    /\ Done /\ handler = "transfer_call" /\ response.kind = "Response"
    /\ Digits = <<"2">>
    /\ response.body[<<"Dial">>].text = <<"+", "1", "5", "5", "5", "0", "1">>

\* C8 (as stated): with target birthdate, every digits string of length
\* other than 8 or containing a non-digit character is rejected with the 400
\* "Invalid birth date format" error.
IsDigitTok(t) == t \in DigitToks \cup NonAsciiDigitToks
Malformed(d) == Len(d) # 8 \/ \E i \in DOMAIN d : ~IsDigitTok(d[i])
C8_MalformedIsFormatError ==
    (Done /\ handler = "process_digits" /\ PathArg(event) = "birthdate"
     /\ Digits # None /\ Malformed(Digits))
        => response = Raised("BadRequestError", InvalidBirthdateFormat(Digits))

\* C8 (amended): with target birthdate, the empty digits string is rejected
\* with 400 "Birth date digits not found in the request"; every non-empty
\* string of length other than 8 or containing a character that is not a
\* digit character is rejected with 400 "Invalid birth date format"; every
\* string of exactly 8 decimal digits 0-9 passes the validation and is split
\* as year = [0:4], month = [4:6], day = [6:8], with no calendar check.
C8_DigitsValidation ==
    (Done /\ handler = "process_digits" /\ PathArg(event) = "birthdate"
     /\ Digits # None)
        => /\ Digits = <<>> =>
                response = Raised("BadRequestError", ERROR_BIRTHDATE_DIGITS_NOT_FOUND)
           /\ (Digits # <<>> /\ Malformed(Digits)) =>
                /\ response = Raised("BadRequestError", InvalidBirthdateFormat(Digits))
                /\ calls = <<>>
           /\ (Len(Digits) = 8 /\ \A i \in 1..8 : Digits[i] \in DigitToks) =>
                /\ HasCall("get_parameters")
                /\ response # Raised("BadRequestError", InvalidBirthdateFormat(Digits))
                /\ response.kind = "Response" =>
                      response.body[<<"Say">>].text =
                          <<"You entered ">> \o SubSeq(Digits, 5, 6) \o <<" ">>
                          \o SubSeq(Digits, 7, 8) \o <<", ">> \o SubSeq(Digits, 1, 4)
                          \o <<" as your birth date. Press 1 to confirm, or press 2 to re-enter your birth date.">>

C8_Witness ==
    /\ Done /\ handler = "process_digits" /\ response.kind = "Response"
    /\ Digits = Prefix(8)
    /\ response.body[<<"Say">>].text[2] = "0"
    /\ response.body[<<"Say">>].text[3] = "1"

\* C9: every digits value process-digits accepts consists of exactly 8
\* characters, each one of '0'..'9'.
C9_OnlyAsciiDigitsAccepted ==
    (Done /\ handler = "process_digits" /\ HasCall("get_parameters"))
        => /\ Len(Digits) = BIRTHDATE_DIGIT_LENGTH
           /\ \A i \in DOMAIN Digits : Digits[i] \in DigitToks

\* C10: for every accepted digits string d, process-digits sets the Gather
\* action to the confirm endpoint with d as the birthdate query parameter,
\* and the confirm step called back on that url reads the same d as its
\* birthdate; on finalize the date spoken is built from d's parts.
C10_BirthdateRoundTrip ==
    /\ (Done /\ handler = "process_digits" /\ response.kind = "Response")
          => /\ flow = Digits
             /\ response.body[<<"Gather">>].action =
                   <<"https://", "api.example.com", "/", "confirm-digits", "/",
                     "birthdate", "?", "birthdate", "=">> \o Digits
    /\ (pc = "pending" /\ flow # None)
          => /\ Route(event) = "confirm_digits"
             /\ PathArg(event) = "birthdate"
             /\ Birthdate = flow
    /\ (Done /\ handler = "confirm_digits" /\ flow # None)
          => /\ Birthdate = flow
             /\ (response.kind = "Response" /\ Digits = <<"1">>)
                   => response.body[<<"Say">>].text =
                          <<"Thank you. We have recorded your birth date as ">>
                          \o SubSeq(flow, 5, 6) \o <<" ">> \o SubSeq(flow, 7, 8)
                          \o <<", ">> \o SubSeq(flow, 1, 4) \o <<". Goodbye!">>

C10_Witness ==
    /\ Done /\ handler = "confirm_digits" /\ flow = Prefix(8)
    /\ Digits = <<"1">> /\ Birthdate = Prefix(8)
    /\ response.kind = "Response"

\* C11: after a valid signature confirm-digits follows the digits parameter:
\* "1" loads the confirmed template and speaks the date of the birthdate
\* parameter; "2" returns the retry markup whose Redirect is the
\* birthdate-entry endpoint; any other value returns the re-prompt whose
\* Gather action is the confirm endpoint with the birthdate parameter embedded
\* and whose Redirect is the birthdate-entry endpoint.  Along a chain of
\* consecutive invalid inputs the birthdate read from the embedded url, and
\* the birthdate the next confirm step receives, is the one the chain
\* started with.
ConfirmUrl == <<"https://", "api.example.com", "/", "confirm-digits", "/", "birthdate">>
BirthdateEntryUrl == <<"https://", "api.example.com", "/", "handle-incoming-call", "/", "birthdate">>
EmbeddedBirthdate(action) == QueryGet(TransportQuery(UrlQuery(XmlUnescape(action))), "birthdate")
C11_ConfirmBranches ==
    /\ (Done /\ handler = "confirm_digits" /\ response.kind = "Response")
          => /\ Verified
             /\ response.status = 200 /\ response.ctype = CONTENT_TYPE_XML
             /\ CallCount("parse_xml_and_extract_root") = 1
             /\ Digits = <<"1">> =>
                   /\ HasCall("parse_xml_and_extract_root")
                   /\ \A i \in DOMAIN calls :
                         calls[i].op = "parse_xml_and_extract_root"
                             => calls[i].arg = "birthdate-confirmed"
                   /\ response.body[<<"Say">>].text =
                          <<"Thank you. We have recorded your birth date as ">>
                          \o Slice(Birthdate, 4, 6) \o <<" ">> \o Slice(Birthdate, 6, 8)
                          \o <<", ">> \o Slice(Birthdate, 0, 4) \o <<". Goodbye!">>
                   /\ <<"Gather">> \notin DOMAIN response.body
             /\ Digits = <<"2">> =>
                   /\ \A i \in DOMAIN calls :
                         calls[i].op = "parse_xml_and_extract_root"
                             => calls[i].arg = "birthdate-retry"
                   /\ response.body[<<"Redirect">>].text = BirthdateEntryUrl
                   /\ <<"Gather">> \notin DOMAIN response.body
             /\ Digits \notin {<<"1">>, <<"2">>} =>
                   /\ \A i \in DOMAIN calls :
                         calls[i].op = "parse_xml_and_extract_root"
                             => calls[i].arg = "birthdate-invalid-input"
                   /\ response.body[<<"Gather">>].action =
                          ConfirmUrl \o <<"?", "birthdate", "=">> \o Birthdate
                   /\ UrlPath(response.body[<<"Gather">>].action)
                          = <<"/", "confirm-digits", "/", "birthdate">>
                   /\ EmbeddedBirthdate(response.body[<<"Gather">>].action) = Birthdate
                   /\ response.body[<<"Redirect">>].text = BirthdateEntryUrl
                   /\ reprompts >= 1
                   /\ original = Birthdate
    /\ (pc = "pending" /\ reprompts >= 1)
          => /\ Route(event) = "confirm_digits"
             /\ PathArg(event) = "birthdate"
             /\ original # None
             /\ Birthdate = original

C11_Witness ==
    /\ Done /\ handler = "confirm_digits" /\ response.kind = "Response"
    /\ Digits = <<"9">>
    /\ reprompts >= 2
    /\ original = Prefix(8)
    /\ EmbeddedBirthdate(response.body[<<"Gather">>].action) = Prefix(8)

\* C12: confirm-digits with target birthdate: an absent or empty digits
\* parameter ends with 400 "Confirmation digits not found in the request";
\* otherwise an absent or empty birthdate parameter ends with 400 "Birthdate
\* parameter not found in the request"; either error is logged once at error
\* level, nothing else is logged, and neither the parameter store nor the
\* signature check is called.  No other request gets these errors.
ConfirmDigitsNotFound == <<"Confirmation digits not found in the request">>
BirthdateNotFound == <<"Birthdate parameter not found in the request">>
C12_ConfirmParametersRequired ==
    (Done /\ handler = "confirm_digits" /\ PathArg(event) = "birthdate")
        => /\ Falsy(Digits) =>
                /\ response = Raised("BadRequestError", ConfirmDigitsNotFound)
                /\ response.status = 400
                /\ log = <<LogEntry("error", ConfirmDigitsNotFound)>>
           /\ (~Falsy(Digits) /\ Falsy(Birthdate)) =>
                /\ response = Raised("BadRequestError", BirthdateNotFound)
                /\ response.status = 400
                /\ log = <<LogEntry("error", BirthdateNotFound)>>
           /\ (Falsy(Digits) \/ Falsy(Birthdate)) =>
                /\ calls = <<>>
                /\ ~Retrieved
                /\ ~HasCall("get_parameters")
                /\ ~HasCall("validate_http_twilio_signature")
           /\ response.msg = ConfirmDigitsNotFound => Falsy(Digits)
           /\ response.msg = BirthdateNotFound => (~Falsy(Digits) /\ Falsy(Birthdate))

C12_Witness ==
    /\ Done /\ handler = "confirm_digits" /\ PathArg(event) = "birthdate"
    /\ Digits = <<"1">> /\ Birthdate = <<>>
    /\ event.sig.hdr = "absent"
    /\ response = Raised("BadRequestError", BirthdateNotFound)
    /\ log = <<LogEntry("error", BirthdateNotFound)>>

\* C13: process-digits and confirm-digits end every request whose target is
\* not the literal birthdate with 400 "Invalid target: <target>. Expected
\* 'birthdate'.", logged once at error level, whatever the query holds
\* (digits and birthdate absent, empty, malformed or well-formed), without a
\* call to the parameter store or the signature check; a request with the
\* literal target never gets this error.
TargetChecked == {"process_digits", "confirm_digits"}
InvalidTargetMessage == <<"Invalid target: ", PathArg(event), ". Expected 'birthdate'.">>
C13_TargetMustBeBirthdate ==
    (Done /\ handler \in TargetChecked)
        => /\ PathArg(event) # "birthdate" =>
                /\ response = Raised("BadRequestError", InvalidTargetMessage)
                /\ response.status = 400
                /\ log = <<LogEntry("error", InvalidTargetMessage)>>
                /\ calls = <<>>
                /\ ~Retrieved
           /\ PathArg(event) = "birthdate" => response.msg # InvalidTargetMessage

C13_Witness ==
    /\ Done /\ handler = "process_digits" /\ PathArg(event) = "Birthdate"
    /\ Digits = None
    /\ event.sig.hdr = "absent"
    /\ response = Raised("BadRequestError", InvalidTargetMessage)

\* C14: for the birthdate-entry template, incoming-call sets the Gather
\* action to https://<host of the webhook base url>/process-digits/birthdate,
\* whether the webhook base url has a path or not.
WebhookHost == UrlNetloc(parameters[ParameterName(SSM_WEBHOOK_API_URL)])
C14_GatherActionIsDigitProcessing ==
    (Done /\ handler = "handle_incoming_call" /\ PathArg(event) = "birthdate"
     /\ response.kind = "Response")
        => response.body[<<"Gather">>].action =
               <<"https://">> \o WebhookHost \o <<"/", "process-digits", "/", "birthdate">>

\* C15: incoming-call with a stem for which no template file exists ends
\* with 400 "Invalid TwiML file: <path of <stem>.twiml.xml>", logged once at
\* error level and nothing else logged, before the caller number is looked
\* for, the parameter store is called or the signature is checked: it is
\* the outcome also when the body has no From pair and the signature header
\* is absent.  A stem with a template file never gets this error.
TemplateFiles == DOMAIN DeployedTemplates
InvalidTwimlFile == <<"Invalid TwiML file: ", PathArg(event), ".twiml.xml">>
C15_UnknownStemRejectedFirst ==
    (Done /\ handler = "handle_incoming_call")
        => /\ PathArg(event) \notin TemplateFiles =>
                /\ response = Raised("BadRequestError", InvalidTwimlFile)
                /\ response.status = 400
                /\ log = <<LogEntry("error", InvalidTwimlFile)>>
                /\ calls = <<>>
                /\ ~Retrieved
           /\ PathArg(event) \in TemplateFiles => response.msg # InvalidTwimlFile

C15_Witness ==
    /\ Done /\ handler = "handle_incoming_call" /\ PathArg(event) = "nope"
    /\ event.body = <<"To", "=", "+", "9">>
    /\ event.sig.hdr = "absent"
    /\ response = Raised("BadRequestError", InvalidTwimlFile)
    /\ log = <<LogEntry("error", InvalidTwimlFile)>>

\* C16: every health invocation, whatever its query, body and signature
\* header and whatever invocations came before it, returns status 200, the
\* JSON content type and the body {"message": "The function is running!"},
\* and makes no call to the parameter store, the signature check or the
\* template files: all health responses of a run are the same response.
HealthResponse ==
    [kind |-> "Response", status |-> 200, ctype |-> "application/json",
     body |-> <<"{\"message\": \"The function is running!\"}">>, msg |-> <<>>]
C16_HealthIdempotent ==
    /\ (Done /\ handler = "check_health")
          => /\ response = HealthResponse
             /\ calls = <<>>
             /\ log = <<>>
             /\ ~Retrieved
    /\ \A i \in DOMAIN history :
          history[i].handler = "check_health" => history[i].response = HealthResponse
    /\ \A i, j \in DOMAIN history :
          (history[i].handler = "check_health" /\ history[j].handler = "check_health")
              => history[i].response = history[j].response

C16_Witness ==
    /\ Done /\ handler = "check_health" /\ response = HealthResponse
    /\ Len(history) >= 3
    /\ \E i, j, k \in DOMAIN history :
          /\ i < j /\ j < k
          /\ history[i].handler = "check_health"
          /\ history[j].handler = "other"
          /\ history[k].handler = "check_health"
          /\ history[i].event # history[k].event
          /\ history[k].event # event

\* C17: a failing monitor_call invocation ends with exactly one error,
\* chosen by the exception that ended its try block: a provider error with
\* the record-not-found code is 400 "Call not found: <id>"; any other
\* provider error is 500 "Twilio API error: <provider message>"; the
\* invalid-parameters error of secret retrieval is 500 "Invalid parameter
\* configuration: <message>"; any other exception is 500 "Failed to fetch
\* call details: <message>".  The error's message is logged once at
\* exception level and nothing else is logged; an invocation in which
\* nothing was raised returns the call record with status 200.
MonitorError(e) ==
    IF e.exc = "TwilioRestException" /\ e.val = <<"20404">>
    THEN [kind |-> "BadRequestError", status |-> 400, ctype |-> "", body |-> <<>>,
          msg |-> <<"Call not found: ", PathArg(event)>>]
    ELSE [kind |-> "InternalServerError", status |-> 500, ctype |-> "", body |-> <<>>,
          msg |-> (IF e.exc = "TwilioRestException" THEN <<"Twilio API error: ">>
                   ELSE IF e.exc = "ValueError"
                   THEN <<"Invalid parameter configuration: ">>
                   ELSE <<"Failed to fetch call details: ">>) \o e.msg]
SecretHandlers == SignatureChecked \cup {"monitor_call"}
RetrievalFailed == HasCall("get_parameters") /\ ~Retrieved
C18_RetrievalErrorHasPrefix ==
    (Done /\ handler \in SecretHandlers /\ RetrievalFailed)
        => /\ response.status = 500
           /\ response.msg[1] = "Invalid parameter configuration: "

\* C18 (amended): in every handler that retrieves secrets a failed retrieval
\* ends with a 500-class error, logged once at exception level, and nothing
\* is validated, loaded or fetched afterwards.  transfer-call, incoming-call,
\* process-digits and confirm-digits carry the retrieval error's own message
\* ("Invalid parameters: [...]" or the client's message) without a prefix;
\* only monitor-call wraps it, with "Invalid parameter configuration: " for
\* the invalid-parameters error and "Failed to fetch call details: " for any
\* other retrieval failure.
RequestedNames == (CHOOSE i \in DOMAIN calls : calls[i].op = "get_parameters")
RetrievalMessages ==
    {<<"Invalid parameters: ">>
         \o Flatten(SelectSeq(calls[RequestedNames].arg, LAMBDA n : n \in S)) :
       S \in (SUBSET Range(calls[RequestedNames].arg)) \ {{}}}
    \cup {<<"Could not connect to the endpoint URL">>}
C18_RetrievalErrorIsServerError ==
    (Done /\ handler \in SecretHandlers /\ RetrievalFailed)
        => /\ response.kind = "InternalServerError"
           /\ response.status = 500
           /\ log = <<LogEntry("exception", response.msg)>>
           /\ ~HasCall("validate_http_twilio_signature")
           /\ ~HasCall("parse_xml_and_extract_root")
           /\ ~HasCall("calls.fetch")
           /\ handler \in SignatureChecked => response.msg \in RetrievalMessages
           /\ handler = "monitor_call" =>
                 /\ Tail(response.msg) \in RetrievalMessages
                 /\ response.msg[1] =
                        (IF response.msg[2] = "Invalid parameters: "
                         THEN "Invalid parameter configuration: "
                         ELSE "Failed to fetch call details: ")

C18_Witness ==
    /\ Done /\ handler = "handle_incoming_call" /\ RetrievalFailed
    /\ response.status = 500
    /\ response.msg = <<"Invalid parameters: ">> \o ParameterName(SSM_WEBHOOK_API_URL)

\* C19: retrieve_ssm_parameters is all-or-nothing.  If any requested name
\* is invalid it fails with ValueError "Invalid parameters: [<the invalid
\* names>]" and gives back no mapping; whenever it returns, the mapping has
\* a value for every requested name.  Hence a handler that has gone past
\* the retrieval holds every one of its parameters, and a handler whose
\* retrieval failed holds none and calls nothing afterwards.
NameLists ==
    {<<ParameterName(SSM_TWILIO_AUTH_TOKEN), ParameterName(SSM_MEDIA_API_URL),
       ParameterName(SSM_OPERATOR_PHONE_NUMBER)>>,
     <<ParameterName(SSM_TWILIO_AUTH_TOKEN), ParameterName(SSM_MEDIA_API_URL),
       ParameterName(SSM_WEBHOOK_API_URL)>>,
     <<ParameterName(SSM_TWILIO_AUTH_TOKEN), ParameterName(SSM_WEBHOOK_API_URL)>>,
     <<ParameterName(SSM_TWILIO_ACCOUNT_SID), ParameterName(SSM_TWILIO_AUTH_TOKEN)>>}
AllOrNothing(store, names) ==
    LET r == retrieve_ssm_parameters(store, names)
        invalid == {n \in Range(names) : store.values[n] = None}
    IN /\ (store.up /\ invalid # {}) =>
             /\ r.exc = "ValueError"
             /\ r.val = None
             /\ r.msg[1] = "Invalid parameters: "
             /\ \A n \in Range(names) :
                   (n \in invalid) <=>
                       (\E i \in 1..(Len(r.msg) - 5) : SubSeq(r.msg, i, i + 5) = n)
       /\ r.exc = "none" =>
             /\ DOMAIN r.val = Range(names)
             /\ \A n \in Range(names) : r.val[n] = store.values[n] /\ r.val[n] # None
       /\ r.exc # "none" => r.val = None
C19_RetrievalAllOrNothing ==
    /\ \A store \in SsmStores, names \in NameLists : AllOrNothing(store, names)
    /\ (Done /\ handler \in SecretHandlers /\ HasCall("get_parameters"))
          => /\ calls[RequestedNames].arg \in NameLists
             /\ Retrieved =>
                   /\ DOMAIN parameters = Range(calls[RequestedNames].arg)
                   /\ \A n \in DOMAIN parameters : parameters[n] # None
             /\ ~Retrieved =>
                   /\ parameters = NoParameters
                   /\ response.kind = "InternalServerError"
                   /\ \A i \in DOMAIN calls : calls[i].op \in {"get_parameters", "raised"}
             /\ (HasCall("validate_http_twilio_signature")
                 \/ HasCall("parse_xml_and_extract_root")
                 \/ HasCall("calls.fetch")) => Retrieved

C19_Witness ==
    /\ Done /\ handler = "transfer_call" /\ Digits = <<"1">>
    /\ HasCall("get_parameters") /\ ~Retrieved
    /\ parameters = NoParameters
    /\ response.msg = <<"Invalid parameters: ">> \o ParameterName(SSM_OPERATOR_PHONE_NUMBER)

\* C20: the uri handed to the signature validator is "https://", the
\* event's domain name and the event's path, followed, when the event has
\* query parameters, by "?" and the parameters as k=v joined by "&" in the
\* order they were delivered, and by nothing at all, not even "?", when the
\* event has no query parameters.
RECURSIVE PairsInOrder(_, _)
PairsInOrder(q, i) ==
    IF i > Len(q) THEN <<>>
    ELSE (IF i = 1 THEN <<>> ELSE <<"&">>) \o <<q[i][1], "=">> \o q[i][2]
         \o PairsInOrder(q, i + 1)
ExpectedUri ==
    <<"https://">> \o event.domain \o event.path
    \o (IF Len(event.query) = 0 THEN <<>> ELSE <<"?">> \o PairsInOrder(event.query, 1))
C20_CanonicalUri ==
    (Done /\ handler \in SignatureChecked)
        => \A i \in DOMAIN calls :
              calls[i].op = "validate"
                  => /\ calls[i].arg.uri = ExpectedUri
                     /\ calls[i].arg.uri[1] = "https://"
                     /\ Len(event.query) = 0 => \A j \in DOMAIN calls[i].arg.uri :
                                                    calls[i].arg.uri[j] # "?"
                     /\ Len(event.query) > 0 =>
                           calls[i].arg.uri[1 + Len(event.domain) + Len(event.path) + 1] = "?"
                     /\ \A a, b \in DOMAIN event.query :
                           a < b => \E m, n \in DOMAIN calls[i].arg.uri :
                                       /\ m < n
                                       /\ calls[i].arg.uri[m] = event.query[a][1]
                                       /\ calls[i].arg.uri[n] = event.query[b][1]

C20_Witness ==
    /\ Done /\ handler = "confirm_digits" /\ Verified
    /\ \E i \in DOMAIN calls :
          /\ calls[i].op = "validate"
          /\ calls[i].arg.uri =
                <<"https://", "api.example.com", "/", "confirm-digits", "/", "birthdate",
                  "?", "digits", "=", "9", "&", "birthdate", "=">> \o Prefix(8)

\* C21: the form parameters handed to the signature validator hold every
\* key/value pair found in the decoded body: a pair with a blank value is
\* kept, and a key that occurs twice keeps both of its values.
C21_EveryPairReachesValidator ==
    Done => \A i \in DOMAIN calls :
               calls[i].op = "validate"
                   => LET pairs == parse_qsl(event.body)
                      IN \A j \in DOMAIN pairs :
                            /\ pairs[j][1] \in DOMAIN calls[i].arg.params
                            /\ pairs[j][2] \in calls[i].arg.params[pairs[j][1]]

\* C22: whenever a handler ends an invocation with an error, an error- or
\* exception-level log entry carrying that error's message was emitted
\* earlier in the same invocation.
C22_ErrorsAreLogged ==
    (Done /\ handler \in SecretHandlers /\ response.kind # "Response")
        => \E i \in DOMAIN log :
              /\ log[i].level \in {"error", "exception"}
              /\ log[i].msg = response.msg

\* C23: batch-monitor-calls validates its query before anything else.  A
\* missing or empty start_date or end_date gives 400 "Both start_date and
\* end_date are required parameters"; a start after the end gives 400
\* "start_date must be before or equal to end_date"; an integer limit
\* outside 1..1000 gives 400 "Limit must be between 1 and 1000"; without a
\* limit the provider is asked for 100 records, and status, direction and
\* page_token are none unless given.  Every one of these 400s is decided
\* with no secret fetched and no provider call made.
BatchParam(name) == QueryGet(event.query, name)
BatchDatesGiven == ~Falsy(BatchParam("start_date")) /\ ~Falsy(BatchParam("end_date"))
BatchDatesParsed ==
    /\ BatchDatesGiven
    /\ ParseIsoDatetime(BatchParam("start_date")).exc = "none"
    /\ ParseIsoDatetime(BatchParam("end_date")).exc = "none"
BatchDatesOrdered ==
    /\ BatchDatesParsed
    /\ ParseIsoDatetime(BatchParam("start_date")).val
          <= ParseIsoDatetime(BatchParam("end_date")).val
BatchLimitIsInteger ==
    BatchParam("limit") # None /\ ParseInt(BatchParam("limit")).exc = "none"
BatchRejected(m) ==
    /\ response = Raised("BadRequestError", <<m>>)
    /\ response.status = 400
    /\ log = <<LogEntry("error", <<m>>)>>
    /\ calls = <<>>
    /\ ~Retrieved
C23_BatchParameterValidation ==
    (Done /\ handler = "batch_monitor_calls")
        => /\ ~BatchDatesGiven
                => BatchRejected("Both start_date and end_date are required parameters")
           /\ (BatchDatesParsed /\ ~BatchDatesOrdered)
                => BatchRejected("start_date must be before or equal to end_date")
           /\ (BatchDatesOrdered /\ BatchLimitIsInteger
               /\ ParseInt(BatchParam("limit")).val \notin 1..1000)
                => BatchRejected("Limit must be between 1 and 1000")
           /\ response.status = 400 => (calls = <<>> /\ ~Retrieved)
           /\ \A i \in DOMAIN calls :
                 calls[i].op = "calls.page"
                     => /\ BatchDatesOrdered
                        /\ Retrieved
                        /\ calls[i].arg.limit \in 1..1000
                        /\ calls[i].arg.limit =
                              (IF BatchParam("limit") = None THEN 100
                               ELSE ParseInt(BatchParam("limit")).val)
                        /\ calls[i].arg.status = BatchParam("status")
                        /\ calls[i].arg.direction = BatchParam("direction")
                        /\ calls[i].arg.page_token = BatchParam("page_token")

C23_Witness ==
    /\ Done /\ handler = "batch_monitor_calls"
    /\ response.status = 200
    /\ BatchParam("limit") = None /\ BatchParam("status") = None
    /\ \E i \in DOMAIN calls :
          /\ calls[i].op = "calls.page"
          /\ calls[i].arg.limit = 100
          /\ calls[i].arg.status = None
          /\ calls[i].arg.page_token = None

\* C24: across any sequence of invocations the response of an invocation
\* depends only on its event and on the parameters fetched during it.  Every
\* invocation loads its template afresh from the file, so two invocations
\* with the same event and the same parameters return the same markup
\* whatever was served in between, and the markup of every invocation is
\* the one the handler produces from the template as deployed, in which
\* every attribute the handler does not write for this event and these
\* parameters has the value it has in the file: a stream url, caller
\* number, action url, redirect or say text written by an earlier
\* invocation is never seen by a later one.
IsRecorded(e) == e.handler # "other"
\* the attributes the handler of a recorded invocation writes
WrittenBy(e) ==
    LET webhook == e.parameters[ParameterName(SSM_WEBHOOK_API_URL)]
    IN CASE e.template = "connect" ->
                {<<<<"Connect", "Stream">>, "url">>,
                 <<<<"Connect", "Stream", "Parameter[@name='From']">>, "value">>}
         [] e.template = "dial" -> {<<<<"Dial">>, "text">>}
         [] e.template = "gather" -> {<<<<"Gather">>, "action">>}
         [] e.template = "birthdate" ->
                {<<<<"Gather">>, "action">>}
                \cup (IF Len(webhook) > 2 THEN {<<<<"Redirect">>, "text">>} ELSE {})
         [] e.template = "birthdate-confirmation" ->
                {<<<<"Say">>, "text">>, <<<<"Gather">>, "action">>,
                 <<<<"Redirect">>, "text">>}
         [] e.template = "birthdate-confirmed" -> {<<<<"Say">>, "text">>}
         [] e.template = "birthdate-retry" -> {<<<<"Redirect">>, "text">>}
         [] e.template = "birthdate-invalid-input" ->
                {<<<<"Gather">>, "action">>, <<<<"Redirect">>, "text">>}
         [] OTHER -> {}
StoreOf(params) ==
    [up |-> TRUE,
     values |-> [n \in AllParameterNames |->
                    IF n \in DOMAIN params THEN params[n] ELSE None]]
FreshOutcome(e) ==
    CASE e.handler = "transfer_call" ->
            transfer_call(e.event, StoreOf(e.parameters), DeployedTemplates, "US")
      [] e.handler = "handle_incoming_call" ->
            handle_incoming_call(e.event, PathArg(e.event), StoreOf(e.parameters),
                                 DeployedTemplates)
      [] e.handler = "process_digits" ->
            process_digits(e.event, PathArg(e.event), StoreOf(e.parameters),
                           DeployedTemplates)
      [] OTHER ->
            confirm_digits(e.event, PathArg(e.event), StoreOf(e.parameters),
                           DeployedTemplates)
C24_ResponseDependsOnInvocationOnly ==
    /\ \A i, j \in DOMAIN history :
          (/\ IsRecorded(history[i]) /\ IsRecorded(history[j])
           /\ history[i].event = history[j].event
           /\ history[i].parameters = history[j].parameters)
              => history[i].response = history[j].response
    /\ \A i \in DOMAIN history :
          IsRecorded(history[i])
              => /\ history[i].response = FreshOutcome(history[i]).response
                 /\ DOMAIN history[i].response.body
                       = DOMAIN DeployedTemplates[history[i].template].root
                 /\ \A p \in DOMAIN history[i].response.body :
                       \A a \in DOMAIN history[i].response.body[p] :
                          <<p, a>> \notin WrittenBy(history[i])
                              => history[i].response.body[p][a] = <<"<template>">>

\* two invocations loaded the birthdate-entry template: the earlier one
\* wrote the Redirect, the later one left it as it is in the file
C24_Witness ==
    \E i, j \in DOMAIN history :
        /\ i < j
        /\ IsRecorded(history[i]) /\ IsRecorded(history[j])
        /\ history[i].template = BIRTHDATE_TWIML_FILE_PATH
        /\ history[j].template = BIRTHDATE_TWIML_FILE_PATH
        /\ history[i].response.body[<<"Redirect">>].text # TemplateValue
        /\ history[j].response.body[<<"Redirect">>].text = TemplateValue

\* C25: every callback url a handler writes into markup (the action of a
\* Gather, the text of a Redirect) has a path that the router dispatches to
\* a registered POST handler, so the provider's next callback never gets
\* the not-found response.
CallbackRoute(url) == Route(Event("POST", UrlNetloc(url), UrlPath(url), <<>>, <<>>, SigAbsent))
C25_CallbackUrlsAreRouted ==
    (Done /\ handler \in SignatureChecked /\ IsMarkup)
        => \A f \in FollowUps(response.body) :
              CallbackRoute(f.url) \in SignatureChecked

\* C26: for every signature-checked request that yields connect markup, the
\* caller number written into the markup is the From value of the form
\* mapping the signature was verified over, for every body: with repeated
\* From keys, with "+" and with percent escapes.
CallerPath == <<"Connect", "Stream", "Parameter[@name='From']">>
C26_CallerIsVerifiedFrom ==
    (/\ Done /\ handler \in SignatureChecked /\ IsMarkup
     /\ CallerPath \in DOMAIN response.body
     /\ response.body[CallerPath].value # TemplateValue)
        => \A i \in DOMAIN calls :
              calls[i].op = "validate"
                  => /\ <<"From">> \in DOMAIN calls[i].arg.params
                     /\ calls[i].arg.params[<<"From">>]
                           = {XmlUnescape(response.body[CallerPath].value)}

\* C27: confirm-digits with digit "1" finalizes (returns the markup that
\* speaks the recorded birth date) only when the birthdate query parameter
\* is exactly 8 decimal digits, a value process-digits would have accepted.
C27_FinalizedBirthdateIsEightDigits ==
    (Done /\ handler = "confirm_digits" /\ Digits = <<"1">> /\ IsMarkup)
        => /\ Len(Birthdate) = 8
           /\ \A i \in DOMAIN Birthdate :
                 Birthdate[i] \in {"0", "1", "2", "3", "4", "5", "6", "7", "8", "9"}

\* C28: caller-number extraction from the body.  The value of the first
\* pair whose percent-decoded key is "From" is returned percent-decoded;
\* pairs without "=" are skipped and later From pairs are ignored; if the
\* body is empty, has no From pair, or the first From value is empty, the
\* result is 400 "Call number not found in the request body".
ExtractionBodies ==
    Bodies
    \cup {<<"From", "=", "&", "From", "=", "+", "2", "7">>,
          <<"From">>,
          <<"=", "+", "1", "5">>,
          <<"From", "=", "a", "=", "b">>,
          <<"To", "=", "+", "9", "&", "%46rom", "=", "%2B", "1", "5", "&",
            "From", "=", "+", "2", "7">>,
          <<"From", "&", "From", "=", "%2B", "2", "7", "%20">>}
PairKey(kv) == unquote(SubSeq(kv, 1, IndexOf(kv, "=") - 1))
PairValue(kv) == unquote(SubSeq(kv, IndexOf(kv, "=") + 1, Len(kv)))
FromPairs(b) ==
    LET pieces == Split(b, "&")
    IN {i \in DOMAIN pieces : "=" \in Range(pieces[i]) /\ PairKey(pieces[i]) = <<"From">>}
ExpectedCaller(b) ==
    IF b = <<>> \/ FromPairs(b) = {} THEN <<>>
    ELSE PairValue(Split(b, "&")[CHOOSE i \in FromPairs(b) : \A j \in FromPairs(b) : i <= j])
CallerNotFound ==
    [exc |-> "BadRequestError", msg |-> <<"Call number not found in the request body">>,
     val |-> None]
ExtractionAsClaimed(b) ==
    LET r == fetch_caller_phone_number_from_request(
                 Event("POST", DomainName, <<"/", "transfer-call">>, <<>>, b, SigAbsent))
    IN IF ExpectedCaller(b) = <<>> THEN r = CallerNotFound
       ELSE r.exc = "none" /\ r.val = ExpectedCaller(b)
C28_CallerExtraction ==
    /\ \A b \in ExtractionBodies : ExtractionAsClaimed(b)
    /\ (Done /\ handler = "handle_incoming_call" /\ PathArg(event) \in DOMAIN DeployedTemplates)
          => /\ ExpectedCaller(event.body) = <<>>
                   => /\ response = Raised("BadRequestError",
                                           <<"Call number not found in the request body">>)
                      /\ response.status = 400
                      /\ calls = <<>>
             /\ (IsMarkup /\ PathArg(event) = "connect")
                   => XmlUnescape(response.body[CallerPath].value) = ExpectedCaller(event.body)

C28_Witness ==
    /\ Done /\ handler = "handle_incoming_call" /\ PathArg(event) = "connect" /\ IsMarkup
    /\ event.body = <<"Malformed", "&", "From", "=", "+", "1", "5", "&", "To", "=">>
    /\ response.body[CallerPath].value = <<"+", "1", "5">>

\* C29: for the birthdate-entry template the Redirect text is set to
\* https://<host><path> of the webhook base url exactly when that url has a
\* non-empty path; when the path is empty the Redirect element is left as
\* it is in the template.  The Gather action is set in both cases.
WebhookCases ==
    WebhookUrls
    \cup {<<"https://", "api.example.com", "/">>,
          <<"https://", "api.example.com", "?", "v", "=", "1">>,
          <<"https://", "api.example.com", "/", "hook", "?", "v", "=", "1">>,
          <<"http://", "api.example.com", "/", "hook">>}
PathOf(w) ==
    LET rest == SubSeq(w, 3, Len(w))
    IN IF "?" \in Range(rest) THEN SubSeq(rest, 1, IndexOf(rest, "?") - 1) ELSE rest
BirthdateEntryAsClaimed(body, w) ==
    /\ body[<<"Gather">>].action # TemplateValue
    /\ SubSeq(body[<<"Gather">>].action, 1, 2) = <<"https://", w[2]>>
    /\ PathOf(w) # <<>> => body[<<"Redirect">>].text = <<"https://", w[2]>> \o PathOf(w)
    /\ PathOf(w) = <<>> => body[<<"Redirect">>] = Element
    /\ \A p \in DOMAIN body, a \in {"url", "value", "action", "text"} :
          (<<p, a>> \notin {<<<<"Gather">>, "action">>, <<<<"Redirect">>, "text">>})
              => body[p][a] = TemplateValue
C29_RedirectOnlyWithPath ==
    /\ \A w \in WebhookCases :
          LET r == RespondBirthdate(DeployedTemplates[BIRTHDATE_TWIML_FILE_PATH].root, w)
          IN r.exc = "none" /\ BirthdateEntryAsClaimed(r.val, w)
    /\ (Done /\ handler = "handle_incoming_call" /\ PathArg(event) = "birthdate" /\ IsMarkup)
          => BirthdateEntryAsClaimed(
                 [p \in DOMAIN response.body |->
                     [a \in DOMAIN response.body[p] |-> XmlUnescape(response.body[p][a])]],
                 parameters[ParameterName(SSM_WEBHOOK_API_URL)])

C29_Witness ==
    /\ Done /\ handler = "handle_incoming_call" /\ PathArg(event) = "birthdate" /\ IsMarkup
    /\ parameters[ParameterName(SSM_WEBHOOK_API_URL)] = <<"https://", "api.example.com">>
    /\ response.body[<<"Redirect">>].text = TemplateValue
    /\ response.body[<<"Gather">>].action # TemplateValue

\* C30: incoming-call for an existing template stem other than connect,
\* gather and birthdate (hangup, dial, ...) returns status 200 with the
\* template serialized without any mutation: no attribute or text of the
\* loaded tree is changed, and the caller number, the media url and the
\* webhook url do not influence the response body.
UnmodifiedStems ==
    DOMAIN TemplateElements
    \ {CONNECT_TWIML_FILE_PATH, GATHER_TWIML_FILE_PATH, BIRTHDATE_TWIML_FILE_PATH}
CallerCases == {<<"+", "1", "5">>, <<"+", "2", "7">>, <<"<", "&">>}
MediaCases == {<<"wss://", "media.example.com">>, <<"wss://", "other.example.com", "/", "s">>}
AsLoaded(body, stem) ==
    /\ DOMAIN body = TemplateElements[stem]
    /\ \A p \in DOMAIN body : body[p] = Element
C30_OtherTemplatesAreServedUnmodified ==
    /\ \A stem \in UnmodifiedStems, c \in CallerCases, m \in MediaCases,
          w \in WebhookCases, t \in TemplateStores :
          LET r == respond_to_call(stem, c, m, w, t)
          IN t[stem].wellformed
                => /\ r.exc = "none"
                   /\ \A p \in DOMAIN t[stem].root :
                         /\ p \in DOMAIN r.val
                         /\ \A a \in DOMAIN t[stem].root[p] :
                               XmlUnescape(r.val[p][a]) = t[stem].root[p][a]
                   /\ DOMAIN r.val = DOMAIN t[stem].root
                   /\ r = respond_to_call(stem, <<"+", "9">>, <<"wss://", "x">>,
                                          <<"https://", "y">>, t)
    /\ (Done /\ handler = "handle_incoming_call" /\ PathArg(event) \in UnmodifiedStems
             /\ response.kind = "Response")
          => /\ response.status = 200
             /\ response.ctype = CONTENT_TYPE_XML
             /\ \A p \in DOMAIN response.body : response.body[p] = Element
             /\ DOMAIN response.body \in {{}, TemplateElements[PathArg(event)]}

C30_Witness ==
    /\ Done /\ handler = "handle_incoming_call" /\ PathArg(event) = "dial"
    /\ response.kind = "Response" /\ response.status = 200
    /\ AsLoaded(response.body, "dial")
    /\ event.body = <<"From", "=", "+", "1", "5">>

====
